---- MODULE Spec2Model ----
(***************************************************************************)
(* A model of the BioFrog neural-simulation core (src/frog_lib): neurons,  *)
(* synapses, the neuromodulator field, the glial network, metabolism, the  *)
(* plasticity managers and the BioFrogBrain orchestrator.                  *)
(*                                                                         *)
(* Real numbers are fixed-point integers in units of 1/Scale; exp and cos  *)
(* are rational approximants computed in fixed point.                      *)
(* Each component has its own specification (SpecNeuron, SpecSynapse, ...) *)
(* over the shared variables; a specification leaves the variables of the  *)
(* other components at their constructed values.                           *)
(***************************************************************************)
EXTENDS Integers, Sequences, FiniteSets, TLC

VARIABLES
    neuron,      \* one neuron object (LIFNeuron / PyramidalNeuron / FastSpikingInterneuron)
    synapses,    \* the live list of synapse objects
    structural,  \* the StructuralPlasticityManager
    neurotransmitter_system,  \* the NeurotransmitterDiffusion field
    glial_network,            \* the GlialNetwork
    metabolism,               \* the SystemicMetabolism
    under_test,  \* the subsystem the driver of SpecSubsystems exercises
    brain,         \* the BioFrogBrain: its own fields and its visual, tectal and motor stages
    juvenile_mode, \* the juvenile_mode argument the brain was constructed with
    raised,        \* the exception the last BioFrogBrain.update call raised, or "none"
    neuron_metabolism,  \* one NeuronMetabolism object
    tectum,             \* one Tectum object driven on its own
    constructed,        \* the outcome of the last constructor call: the instance it
                        \* produced, if any, and the exception it raised, or "none"
    simulation,  \* the BioFlyCatchingSimulation: its own fields
    frog,        \* the BioFrogAgent of the simulation: its own fields (its brain is `brain`)
    last,        \* the last operation the driver called, with the inputs it passed
    calls        \* number of operations the driver has called

vars == <<neuron, synapses, structural, neurotransmitter_system, glial_network, metabolism,
          under_test, brain, juvenile_mode, raised, neuron_metabolism,
          tectum, constructed, simulation, frog, last, calls>>

neuronVars == <<neuron>>

synapseVars == <<synapses, structural>>

subsystemVars == <<neurotransmitter_system, glial_network, metabolism, under_test>>

brainVars == <<brain, juvenile_mode, raised>>

agentVars == <<simulation, frog>>

energyVars == <<neuron_metabolism>>

tectumVars == <<tectum>>

constructionVars == <<constructed>>

(***************************************************************************)
(* Fixed-point arithmetic                                                  *)
(***************************************************************************)
\* one real unit; 0.001 is the resolution of the model
Scale == 10 * 10 * 10

Min(a, b) == IF a <= b THEN a ELSE b

Max(a, b) == IF a >= b THEN a ELSE b

Abs(a) == IF a >= 0 THEN a ELSE -a

\* the product of two fixed-point numbers, floor(a * b / Scale), computed from the whole
\* and the fractional part of b so that a large b does not leave the 32-bit range
Mul(a, b) == a * (b \div Scale) + (a * (b % Scale)) \div Scale

\* the quotient of two fixed-point numbers, floor(a * Scale / b) for b > 0, computed from
\* the quotient and the remainder of a by b
Div(a, b) == (a \div b) * Scale + ((a % b) * Scale) \div b

\* (n/d) * x for a literal coefficient n/d
Frac(n, d, x) == (n * x) \div d

\* np.clip(x, lo, hi) == minimum(maximum(x, lo), hi)
Clip(x, lo, hi) == Min(Max(x, lo), hi)

\* np.exp(-x) for a fixed-point x >= 0: the Pade approximant
\* (12 - 6x + x^2) / (12 + 6x + x^2) on [0, 0.5], squared up from x/2 above it,
\* and 0 (below the resolution) from x = 10 on
RECURSIVE ExpNeg(_)
ExpNeg(x) ==
    IF x >= 10 * Scale THEN 0
    ELSE IF x > Scale \div 2
         THEN LET h == ExpNeg(x \div 2) IN Mul(h, h)
         ELSE (Scale * (12 * Scale - 6 * x + (x * x) \div Scale))
              \div (12 * Scale + 6 * x + (x * x) \div Scale)

\* np.exp(-dt / tau)
Decay(dt, tau) == ExpNeg(Div(dt, tau))

\* the largest k in lo..hi with k * k <= n, by bisection
RECURSIVE SqrtSearch(_, _, _)
SqrtSearch(n, lo, hi) ==
    IF lo >= hi THEN lo
    ELSE LET mid == (lo + hi + 1) \div 2
         IN IF mid * mid <= n THEN SqrtSearch(n, mid, hi) ELSE SqrtSearch(n, lo, mid - 1)

\* int(np.sqrt(n)) for an integer n >= 0
ISqrt(n) == SqrtSearch(n, 0, Min(n, 46340))

\* 2 * np.pi
TwoPi == Frac(6283, 1000, Scale)

\* np.cos(x) for x in [0, 2 pi): folded onto [0, pi/2], where it is Bhaskara's
\* (pi^2 - 4 x^2) / (pi^2 + x^2)
CosQuarter(x) ==
    LET pi2 == Mul(TwoPi \div 2, TwoPi \div 2)
        x2 == Mul(x, x)
    IN Div(pi2 - 4 * x2, pi2 + x2)

Cos(x) ==
    LET pi == TwoPi \div 2
        y == IF x > pi THEN TwoPi - x ELSE x
    IN IF y > pi \div 2 THEN -CosQuarter(pi - y) ELSE CosQuarter(y)

\* the sum and the mean of a sequence of fixed-point numbers
RECURSIVE Sum(_)
Sum(seq) == IF seq = << >> THEN 0 ELSE seq[1] + Sum(Tail(seq))

Mean(seq) == Sum(seq) \div Len(seq)

(***************************************************************************)
(* Bounds of the model                                                     *)
(***************************************************************************)
\* operations the driver calls on a stand-alone component
MaxCalls == 4

\* synapses in the list handed to the structural plasticity manager
MaxSynapses == 2

\* elimination events counted before the driver stops calling update_structure
MaxEvents == 3

\* the juvenile_duration of the model's brain, in update calls (the constructor's is 5000)
JuvenileDuration == 2

\* receptive fields per side of the brain's retina (the constructor's is 10)
FiltersPerSide == 2

\* direction columns of the brain's tectum (the constructor's is 16)
BrainColumns == 2

\* operations the driver calls on the neuromodulator field
MaxFieldCalls == 3

\* direction columns of the tectum driven on its own (the constructor's default is 16)
TectumColumns == 4

\* operations the driver calls on that tectum
MaxTectumCalls == 2

\* simulation steps of one hunt: two cooldowns of 30 steps and the strikes that end them
MaxSteps == 63

\* the largest grid_size of a neuromodulator field
MaxGrid == 2

(***************************************************************************)
(* core/biological_neuron.py                                               *)
(***************************************************************************)
NeuronKinds == {"LIFNeuron", "PyramidalNeuron", "FastSpikingInterneuron"}

\* LIFNeuron.__init__ with its default parameters
LIFNeuron ==
    [ kind |-> "LIFNeuron",
      rest_potential |-> -70 * Scale,
      threshold |-> -40 * Scale,
      membrane_potential |-> -70 * Scale,
      tau_membrane |-> 20 * Scale,
      tau_refractory |-> 2 * Scale,
      max_firing_rate |-> 200 * Scale,
      spike_output |-> 0,
      refractory_counter |-> 0,
      last_spike_time |-> -1000 * Scale,
      membrane_potential_history |-> << >> ]

\* PyramidalNeuron.__init__: the base fields and the dendritic state
PyramidalNeuron ==
    [LIFNeuron EXCEPT !.kind = "PyramidalNeuron"] @@
    [ apical_dendrite_input |-> 0,
      basal_dendrite_input |-> 0,
      soma_input |-> 0,
      dendritic_plateau_potential |-> 0,
      dendritic_spike_threshold |-> -30 * Scale ]

\* FastSpikingInterneuron.__init__: short time constants and the adaptation state
FastSpikingInterneuron ==
    [LIFNeuron EXCEPT !.kind = "FastSpikingInterneuron",
                      !.tau_membrane = 5 * Scale,
                      !.tau_refractory = 1 * Scale] @@
    [ adaptation_current |-> 0,
      adaptation_tau |-> 100 * Scale,
      spike_count |-> 0 ]

\* a freshly constructed neuron of a class
NewNeuron(kind) ==
    CASE kind = "LIFNeuron" -> LIFNeuron
      [] kind = "PyramidalNeuron" -> PyramidalNeuron
      [] kind = "FastSpikingInterneuron" -> FastSpikingInterneuron

\* a refractory branch that counts down but leaves the potential where the spike left it
Refractory_NoPin(n, dt) ==
    [n EXCEPT !.refractory_counter = @ - dt,
              !.spike_output = 0]

\* the refractory branch the three integrate methods share
Refractory(n, dt) ==
    [n EXCEPT !.refractory_counter = @ - dt,
              !.spike_output = 0,
              !.membrane_potential = n.rest_potential]

\* the leak of the membrane potential toward rest
Leak(n, dt) ==
    n.rest_potential + Mul(n.membrane_potential - n.rest_potential, Decay(dt, n.tau_membrane))

\* membrane_potential_history.append(v), cut to the last 1000 samples
AppendHistory(h, v) ==
    LET h1 == Append(h, v)
    IN IF Len(h1) > 1000 THEN SubSeq(h1, Len(h1) - 999, Len(h1)) ELSE h1

\* LIFNeuron.integrate(dt, input_current)
LIFNeuron_integrate(n, dt, input_current) ==
    IF n.refractory_counter > 0 THEN Refractory(n, dt)
    ELSE LET v == Leak(n, dt) + (input_current * dt) \div n.tau_membrane
             spiked == v >= n.threshold
         IN [n EXCEPT !.membrane_potential = v,
                      !.spike_output = IF spiked THEN Scale ELSE 0,
                      !.refractory_counter = IF spiked THEN n.tau_refractory ELSE @,
                      !.last_spike_time = (IF spiked THEN 0 ELSE @) + dt,
                      !.membrane_potential_history = AppendHistory(@, v)]

\* PyramidalNeuron.integrate(dt, basal_input, apical_input); apical None is 0
PyramidalNeuron_integrate(n, dt, basal_input, apical_input) ==
    IF n.refractory_counter > 0 THEN Refractory(n, dt)
    ELSE LET basal == Frac(9, 10, n.basal_dendrite_input) + Frac(1, 10, basal_input)
             apical == Frac(9, 10, n.apical_dendrite_input) + Frac(1, 10, apical_input)
             plateau == IF apical_input > Frac(5, 10, Scale) /\ basal > Frac(3, 10, Scale)
                        THEN Scale
                        ELSE Mul(n.dendritic_plateau_potential, Decay(dt, 50 * Scale))
             soma == basal_input + Frac(3, 10, Mul(apical_input, plateau))
             v == Leak(n, dt) + (soma * dt) \div n.tau_membrane
             spiked == v >= n.threshold
         IN [n EXCEPT !.basal_dendrite_input = basal,
                      !.apical_dendrite_input = apical,
                      !.dendritic_plateau_potential = plateau,
                      !.membrane_potential = v,
                      !.spike_output = IF spiked THEN Scale ELSE 0,
                      !.refractory_counter = IF spiked THEN n.tau_refractory ELSE @,
                      !.last_spike_time = (IF spiked THEN 0 ELSE @) + dt]

\* FastSpikingInterneuron.integrate(dt, input_current)
FastSpikingInterneuron_integrate(n, dt, input_current) ==
    IF n.refractory_counter > 0 THEN Refractory(n, dt)
    ELSE LET adapt == Mul(n.adaptation_current, Decay(dt, n.adaptation_tau))
             net == input_current - Frac(5, 10, adapt)
             v == Leak(n, dt) + (net * dt) \div n.tau_membrane
             spiked == v >= n.threshold
         IN [n EXCEPT !.adaptation_current = IF spiked THEN adapt + 5 * Scale ELSE adapt,
                      !.spike_count = IF spiked THEN @ + 1 ELSE @,
                      !.membrane_potential = v,
                      !.spike_output = IF spiked THEN Scale ELSE 0,
                      !.refractory_counter = IF spiked THEN n.tau_refractory ELSE @,
                      !.last_spike_time = (IF spiked THEN 0 ELSE @) + dt]

\* n.integrate(dt, drive, apical) dispatched on the neuron's class
Integrate(n, dt, drive, apical) ==
    CASE n.kind = "LIFNeuron" -> LIFNeuron_integrate(n, dt, drive)
      [] n.kind = "PyramidalNeuron" -> PyramidalNeuron_integrate(n, dt, drive, apical)
      [] n.kind = "FastSpikingInterneuron" -> FastSpikingInterneuron_integrate(n, dt, drive)

\* LIFNeuron.reset(), inherited unchanged by both subclasses
LIFNeuron_reset(n) ==
    [n EXCEPT !.membrane_potential = n.rest_potential,
              !.spike_output = 0,
              !.refractory_counter = 0,
              !.last_spike_time = -1000 * Scale,
              !.membrane_potential_history = << >>]

(***************************************************************************)
(* core/synapse_models.py                                                  *)
(***************************************************************************)
\* an Optional[float]: None is the empty sequence, a value t is <<t>>
None == << >>

Some(t) == <<t>>

\* the values np.random.uniform(0.2, 0.8) is represented by
RandomWeights == {Frac(2, 10, Scale), Frac(5, 10, Scale), Frac(8, 10, Scale) - 1}

\* BiologicalSynapse.__init__(max_weight, initial_weight, min_weight); initial_weight is
\* an Optional, and `initial_weight if initial_weight else uniform` also replaces 0.0;
\* random_weight is the value the uniform draw returns when it is made
BiologicalSynapse(max_weight, initial_weight, min_weight, random_weight) ==
    [ max_weight |-> max_weight,
      min_weight |-> min_weight,
      weight |-> IF initial_weight # None /\ initial_weight[1] # 0
                 THEN initial_weight[1] ELSE random_weight,
      stdp_window |-> 50 * Scale,
      stdp_amplitude |-> Frac(1, 100, Scale),
      facilitation_state |-> 0,
      depression_state |-> 0,
      facilitation_tau |-> 50 * Scale,
      depression_tau |-> 200 * Scale,
      current_efficacy |-> Scale,
      dopamine_modulation |-> Frac(5, 10, Scale),
      serotonin_modulation |-> Frac(5, 10, Scale),
      acetylcholine_level |-> Frac(3, 10, Scale),
      presynaptic_spike_time |-> None,
      postsynaptic_spike_time |-> None ]

\* the weight change of one spike pair inside the window, before modulation
StdpChange(syn, delta_t) ==
    IF delta_t > 0
    THEN Mul(syn.stdp_amplitude, Decay(delta_t, syn.stdp_window))
    ELSE -Mul(syn.stdp_amplitude, Decay(-delta_t, syn.stdp_window))

\* an apply_stdp whose window includes a spike-time difference equal to stdp_window
apply_stdp_WindowInclusive(syn, pre, post) ==
    IF pre = None \/ post = None THEN syn
    ELSE LET delta_t == post[1] - pre[1]
             modulation == Frac(7, 10, syn.dopamine_modulation)
                           + Frac(3, 10, syn.serotonin_modulation)
         IN IF Abs(delta_t) <= syn.stdp_window
            THEN [syn EXCEPT !.weight = Clip(syn.weight + Mul(StdpChange(syn, delta_t), modulation),
                                             syn.min_weight, syn.max_weight)]
            ELSE syn

\* BiologicalSynapse.apply_stdp(presynaptic_spike_time, postsynaptic_spike_time)
apply_stdp(syn, pre, post) ==
    IF pre = None \/ post = None THEN syn
    ELSE LET delta_t == post[1] - pre[1]
             modulation == Frac(7, 10, syn.dopamine_modulation)
                           + Frac(3, 10, syn.serotonin_modulation)
         IN IF Abs(delta_t) < syn.stdp_window
            THEN [syn EXCEPT !.weight = Clip(syn.weight + Mul(StdpChange(syn, delta_t), modulation),
                                             syn.min_weight, syn.max_weight)]
            ELSE syn

\* BiologicalSynapse.apply_short_term_plasticity(dt, spike)
apply_short_term_plasticity(syn, dt, spike) ==
    LET fac == IF spike THEN Scale
               ELSE Mul(syn.facilitation_state, Decay(dt, syn.facilitation_tau))
        dep == IF spike THEN Scale
               ELSE Mul(syn.depression_state, Decay(dt, syn.depression_tau))
    IN [syn EXCEPT !.facilitation_state = fac,
                   !.depression_state = dep,
                   !.current_efficacy = Clip(Scale + Frac(3, 10, fac) - Frac(5, 10, dep),
                                             Frac(1, 10, Scale), 2 * Scale)]

\* BiologicalSynapse.transmit(presynaptic_output)
transmit(syn, presynaptic_output) ==
    Mul(Mul(presynaptic_output, syn.weight), syn.current_efficacy)

\* BiologicalSynapse.update_modulators(dopamine, serotonin, acetylcholine)
update_modulators(syn, dopamine, serotonin, acetylcholine) ==
    [syn EXCEPT !.dopamine_modulation = dopamine,
                !.serotonin_modulation = serotonin,
                !.acetylcholine_level = acetylcholine]

(***************************************************************************)
(* plasticity/structural_plasticity.py                                     *)
(***************************************************************************)
\* the two rates are kept in units of 1/RateScale
RateScale == 100 * Scale

\* np.random.random() in [0, 1), in units of 1/(RateScale * Scale)
RandomUnit == RateScale * Scale

\* StructuralPlasticityManager.__init__
StructuralPlasticityManager ==
    [ synapse_creation_threshold |-> Frac(1, 10, Scale),
      synapse_elimination_threshold |-> Frac(1, 100, Scale),
      synapse_creation_rate |-> 10,
      synapse_elimination_rate |-> 5,
      created_synapses_count |-> 0,
      eliminated_synapses_count |-> 0 ]

\* a loop body whose elimination test compares the draw with the wrong side of the
\* probability, so that no draw in [0, 1) ever eliminates
StructureStep_NeverEliminates(m, syn, dt, draw) ==
    IF syn.weight > m.synapse_creation_threshold
    THEN LET growth == (m.synapse_creation_rate * Mul(syn.weight, dt)) \div RateScale
         IN <<[syn EXCEPT !.weight = Min(syn.weight + growth, syn.max_weight)], 1, 0>>
    ELSE IF syn.weight < m.synapse_elimination_threshold
         THEN IF draw < -(m.synapse_elimination_rate * dt)
              THEN <<[syn EXCEPT !.weight = 0], 0, 1>>
              ELSE <<syn, 0, 0>>
         ELSE <<syn, 0, 0>>

\* a loop body whose growth test includes the creation threshold itself
StructureStep_GrowsAtThreshold(m, syn, dt, draw) ==
    IF syn.weight >= m.synapse_creation_threshold
    THEN LET growth == (m.synapse_creation_rate * Mul(syn.weight, dt)) \div RateScale
         IN <<[syn EXCEPT !.weight = Min(syn.weight + growth, syn.max_weight)], 1, 0>>
    ELSE IF syn.weight < m.synapse_elimination_threshold
         THEN IF draw < m.synapse_elimination_rate * dt
              THEN <<[syn EXCEPT !.weight = 0], 0, 1>>
              ELSE <<syn, 0, 0>>
         ELSE <<syn, 0, 0>>

\* the body of update_structure's loop for one synapse; draw is what
\* np.random.random() returns if the elimination branch asks for it.
\* The result is <<the synapse, created?, eliminated?>>
StructureStep(m, syn, dt, draw) ==
    IF syn.weight > m.synapse_creation_threshold
    THEN LET growth == (m.synapse_creation_rate * Mul(syn.weight, dt)) \div RateScale
         IN <<[syn EXCEPT !.weight = Min(syn.weight + growth, syn.max_weight)], 1, 0>>
    ELSE IF syn.weight < m.synapse_elimination_threshold
         THEN IF draw < m.synapse_elimination_rate * dt
              THEN <<[syn EXCEPT !.weight = 0], 0, 1>>
              ELSE <<syn, 0, 0>>
         ELSE <<syn, 0, 0>>

\* the sum of component k of the loop's results
RECURSIVE CountEvents(_, _)
CountEvents(steps, k) ==
    IF steps = << >> THEN 0 ELSE steps[1][k] + CountEvents(Tail(steps), k)

\* StructuralPlasticityManager.update_structure(synapses, neural_activity, dt): the
\* new <<synapse list, manager>>; draws[i] is the random number drawn for synapse i
update_structure(m, syns, dt, draws) ==
    LET steps == [i \in 1..Len(syns) |-> StructureStep(m, syns[i], dt, draws[i])]
    IN << [i \in 1..Len(syns) |-> steps[i][1]],
          [m EXCEPT !.created_synapses_count = @ + CountEvents(steps, 2),
                    !.eliminated_synapses_count = @ + CountEvents(steps, 3)] >>

(***************************************************************************)
(* core/neurotransmitter_diffusion.py                                      *)
(***************************************************************************)
\* int(a / b) for b > 0: Python's int() truncates toward zero
Trunc(a, b) == IF a >= 0 THEN a \div b ELSE -((-a) \div b)

\* the cells of a grid_size x grid_size map
Cells(grid_size) == (0..(grid_size - 1)) \X (0..(grid_size - 1))

\* np.zeros((grid_size, grid_size)), and map.fill(value)
FilledMap(grid_size, value) == [c \in Cells(grid_size) |-> value]

\* NeurotransmitterDiffusion.__init__(space_size); space_size is in arena units
NeurotransmitterDiffusion(space_size) ==
    LET grid_size == ISqrt((space_size[1] * space_size[2]) \div (20 * 20))
    IN [ space_size |-> space_size,
         diffusion_rate |-> Frac(1, 10, Scale),
         grid_resolution |-> 20,
         grid_size |-> grid_size,
         dopamine_map |-> FilledMap(grid_size, 0),
         serotonin_map |-> FilledMap(grid_size, 0),
         acetylcholine_map |-> FilledMap(grid_size, 0),
         dopamine_baseline |-> Frac(3, 10, Scale),
         serotonin_baseline |-> Frac(3, 10, Scale),
         acetylcholine_baseline |-> Frac(2, 10, Scale),
         decay_tau |-> 500 * Scale ]

\* _create_diffusion_kernel, before normalisation: exp(-(x^2 + y^2) / (2 sigma^2)), sigma = 1
KernelRaw(x, y) == ExpNeg(((x * x + y * y) * Scale) \div 2)

KernelOffsets == {-1, 0, 1} \X {-1, 0, 1}

\* the sum of the function f over the finite set
RECURSIVE SumOver(_, _)
SumOver(set, f) ==
    IF set = {} THEN 0
    ELSE LET e == CHOOSE e \in set : TRUE IN f[e] + SumOver(set \ {e}, f)

\* kernel.sum()
KernelSum == SumOver(KernelOffsets, [d \in KernelOffsets |-> KernelRaw(d[1], d[2])])

\* _position_to_grid(position)
PositionToGrid(nts, position) ==
    << Clip(Trunc(position[1] * nts.grid_size, nts.space_size[1]), 0, nts.grid_size - 1),
       Clip(Trunc(position[2] * nts.grid_size, nts.space_size[2]), 0, nts.grid_size - 1) >>

\* a release whose sum is not capped at 1
release_Uncapped(nts, position, amount, transmitter_type) ==
    LET g == PositionToGrid(nts, position)
    IN CASE transmitter_type = "dopamine" ->
              [nts EXCEPT !.dopamine_map[g] = @ + amount]
         [] transmitter_type = "serotonin" ->
              [nts EXCEPT !.serotonin_map[g] = @ + amount]
         [] transmitter_type = "acetylcholine" ->
              [nts EXCEPT !.acetylcholine_map[g] = @ + amount]
         [] OTHER -> nts

\* NeurotransmitterDiffusion.release(position, amount, transmitter_type)
release(nts, position, amount, transmitter_type) ==
    LET g == PositionToGrid(nts, position)
    IN CASE transmitter_type = "dopamine" ->
              [nts EXCEPT !.dopamine_map[g] = Min(Scale, @ + amount)]
         [] transmitter_type = "serotonin" ->
              [nts EXCEPT !.serotonin_map[g] = Min(Scale, @ + amount)]
         [] transmitter_type = "acetylcholine" ->
              [nts EXCEPT !.acetylcholine_map[g] = Min(Scale, @ + amount)]
         [] OTHER -> nts

\* signal.convolve2d(map, kernel, mode='same', boundary='fill', fillvalue=0.0) at cell c,
\* with the kernel normalised by its sum
Convolve(nts, map, c) ==
    LET term == [d \in KernelOffsets |->
                    LET n == <<c[1] + d[1], c[2] + d[2]>>
                    IN IF n \in Cells(nts.grid_size) THEN KernelRaw(d[1], d[2]) * map[n] ELSE 0]
    IN SumOver(KernelOffsets, term) \div KernelSum

\* _apply_diffusion(concentration_map, dt): every map is relaxed toward dopamine_baseline
apply_diffusion(nts, map, dt) ==
    LET decay == Decay(dt, nts.decay_tau)
    IN [c \in Cells(nts.grid_size) |->
           Clip(nts.dopamine_baseline + Mul(Convolve(nts, map, c) - nts.dopamine_baseline, decay),
                0, Scale)]

\* NeurotransmitterDiffusion.diffuse(dt)
diffuse(nts, dt) ==
    [nts EXCEPT !.dopamine_map = apply_diffusion(nts, @, dt),
                !.serotonin_map = apply_diffusion(nts, @, dt),
                !.acetylcholine_map = apply_diffusion(nts, @, dt)]

\* NeurotransmitterDiffusion.reset()
NeurotransmitterDiffusion_reset(nts) ==
    [nts EXCEPT !.dopamine_map = FilledMap(nts.grid_size, nts.dopamine_baseline),
                !.serotonin_map = FilledMap(nts.grid_size, nts.serotonin_baseline),
                !.acetylcholine_map = FilledMap(nts.grid_size, nts.acetylcholine_baseline)]

(***************************************************************************)
(* core/glial_cells.py                                                     *)
(***************************************************************************)
\* Astrocyte.__init__(position, influence_radius)
Astrocyte(position, influence_radius) ==
    [ position |-> position,
      influence_radius |-> influence_radius,
      calcium_level |-> 0,
      calcium_resting |-> Frac(1, 10, Scale),
      calcium_peak |-> 2 * Scale,
      calcium_decay_tau |-> 500 * Scale,
      gliotransmitter_release |-> 0,
      gliotransmitter_threshold |-> Frac(3, 10, Scale),
      glutamate_level |-> 0,
      atp_level |-> 0,
      neural_activity_history |-> << >>,
      activation_threshold |-> Frac(1, 10, Scale) ]

\* the square of np.linalg.norm(p - q), in units of 0.1 x 0.1
DistSq(p, q) ==
    LET dx == (p[1] - q[1]) \div (Scale \div 10)
        dy == (p[2] - q[2]) \div (Scale \div 10)
    IN dx * dx + dy * dy

\* distance(p, q) < radius
Within(p, q, radius) ==
    LET r == radius \div (Scale \div 10) IN DistSq(p, q) < r * r

\* neural_activity_map[nearby_indices]: the activities of the neurons within the radius
RECURSIVE NearbyActivity(_, _, _)
NearbyActivity(a, activity, positions) ==
    IF positions = << >> THEN << >>
    ELSE (IF Within(positions[1], a.position, a.influence_radius) THEN <<activity[1]>> ELSE << >>)
         \o NearbyActivity(a, Tail(activity), Tail(positions))

\* Astrocyte.respond_to_neural_activity(neural_activity_map, neural_positions, dt)
respond_to_neural_activity(a, activity, positions, dt) ==
    IF Len(positions) = 0 THEN a
    ELSE LET nearby == NearbyActivity(a, activity, positions)
             local_activity == IF nearby # << >> THEN Mean(nearby) ELSE 0
             calcium == IF local_activity > a.activation_threshold
                        THEN a.calcium_level + Frac(1, 10, a.calcium_peak - a.calcium_level)
                        ELSE a.calcium_resting
                             + Mul(a.calcium_level - a.calcium_resting,
                                   Decay(dt, a.calcium_decay_tau))
             releasing == calcium > a.gliotransmitter_threshold
             released == Div(calcium - a.gliotransmitter_threshold,
                             a.calcium_peak - a.gliotransmitter_threshold)
         IN [a EXCEPT !.calcium_level = calcium,
                      !.gliotransmitter_release = IF releasing THEN released ELSE 0,
                      !.glutamate_level = IF releasing THEN Frac(3, 10, released)
                                          ELSE Mul(@, Decay(dt, 100 * Scale)),
                      !.atp_level = IF releasing THEN Frac(5, 10, released)
                                    ELSE Mul(@, Decay(dt, 150 * Scale)),
                      !.neural_activity_history = AppendHistory(@, local_activity)]

\* GlialNetwork.__init__(num_astrocytes, brain_size): a grid of int(sqrt(n)) x int(sqrt(n))
GlialNetwork(num_astrocytes, brain_size) ==
    LET grid_size == ISqrt(num_astrocytes)
        cell(k) == <<(k - 1) \div grid_size, (k - 1) % grid_size>>
    IN [ num_astrocytes |-> num_astrocytes,
         brain_size |-> brain_size,
         astrocytes |->
            [k \in 1..(grid_size * grid_size) |->
                Astrocyte(<< ((2 * cell(k)[1] + 1) * brain_size[1]) \div (2 * grid_size),
                             ((2 * cell(k)[2] + 1) * brain_size[2]) \div (2 * grid_size) >>,
                          brain_size[1] \div (2 * grid_size))],
         average_gliotransmitter |-> 0,
         brain_state |-> "resting" ]

\* GlialNetwork.update(neural_activity_map, neural_positions, dt)
GlialNetwork_update(g, activity, positions, dt) ==
    LET astrocytes == [k \in 1..Len(g.astrocytes) |->
                          respond_to_neural_activity(g.astrocytes[k], activity, positions, dt)]
        average == Mean([k \in 1..Len(astrocytes) |-> astrocytes[k].gliotransmitter_release])
    IN [g EXCEPT !.astrocytes = astrocytes,
                 !.average_gliotransmitter = average,
                 !.brain_state = IF average > Frac(5, 10, Scale) THEN "excited"
                                 ELSE IF average > Frac(2, 10, Scale) THEN "active"
                                 ELSE "resting"]

\* GlialNetwork.reset()
GlialNetwork_reset(g) ==
    [g EXCEPT !.astrocytes =
        [k \in 1..Len(g.astrocytes) |->
            [g.astrocytes[k] EXCEPT !.calcium_level = g.astrocytes[k].calcium_resting,
                                    !.gliotransmitter_release = 0]]]

(***************************************************************************)
(* metabolism/systemic_metabolism.py                                       *)
(***************************************************************************)
\* NeuronMetabolism.__init__(baseline_atp, max_atp)
NeuronMetabolism(baseline_atp, max_atp) ==
    [ atp_level |-> baseline_atp,
      max_atp |-> max_atp,
      baseline_atp |-> baseline_atp,
      atp_cost_spike |-> Frac(1, 10, Scale),
      atp_cost_rest |-> Frac(1, 100, Scale),
      atp_recovery_rate |-> Frac(2, 100, Scale),
      excitability_modifier |-> Scale,
      sodium_potassium_pump_efficiency |-> Scale ]

\* an ATP level that is stored as computed
ClipAtp_Unclipped(m, level) == level

\* np.clip(atp_level, 0.0, self.max_atp)
ClipAtp(m, level) == Clip(level, 0, m.max_atp)

\* NeuronMetabolism.consume_energy(spiked, firing_rate, dt)
consume_energy(m, spiked, firing_rate, dt) ==
    LET spike_cost == IF spiked THEN m.atp_cost_spike ELSE 0
        baseline_cost == Mul(m.atp_cost_rest, dt)
        frequency_cost == Mul(Frac(1, 100, firing_rate), dt)
    IN [m EXCEPT !.atp_level = ClipAtp(m, m.atp_level - spike_cost - baseline_cost
                                          - frequency_cost)]

\* NeuronMetabolism.recover_energy(dt, oxygen_level, glucose_level)
recover_energy(m, dt, oxygen_level, glucose_level) ==
    LET recovery_factor == Mul(Mul(oxygen_level, glucose_level),
                               m.sodium_potassium_pump_efficiency)
        recovery == Mul(Mul(m.atp_recovery_rate, recovery_factor), dt)
    IN [m EXCEPT !.atp_level = ClipAtp(m, m.atp_level + recovery)]

\* NeuronMetabolism.affects_excitability(): the object afterwards; the value returned is
\* its excitability_modifier
affects_excitability(m) ==
    LET half == Frac(5, 10, m.baseline_atp)
        excitability ==
            IF m.atp_level < half
            THEN Frac(3, 10, Scale) + Frac(7, 10, Div(m.atp_level, half))
            ELSE Scale + Frac(5, 10, Div(m.atp_level - m.baseline_atp, m.baseline_atp))
    IN [m EXCEPT !.excitability_modifier = Clip(excitability, Frac(1, 10, Scale), 2 * Scale)]

\* SystemicMetabolism.__init__; the four rates are in units of 1/RateScale
SystemicMetabolism ==
    [ glucose_level |-> Scale,
      oxygen_level |-> Scale,
      lactate_level |-> Frac(1, 10, Scale),
      glucose_consumption_rate |-> 100,
      oxygen_consumption_rate |-> 150,
      glucose_recovery_rate |-> 50,
      oxygen_recovery_rate |-> 100,
      neural_activity_level |-> 0,
      movement_activity_level |-> 0,
      circadian_phase |-> 0,
      fatigue_level |-> 0 ]

\* rate * factor * dt for a rate in units of 1/RateScale; the product is taken in three
\* pieces (whole seconds of dt against the thousands and the remainder of rate * factor,
\* then the fraction of dt) so that every intermediate value fits the integer width
Rated(rate, factor, dt) ==
    LET rf == rate * factor
        whole == dt \div Scale
        part == dt % Scale
    IN ((rf \div Scale) * whole) \div (RateScale \div Scale)
       + ((rf % Scale) * whole) \div RateScale
       + (rf * part) \div RandomUnit

\* a circadian phase that advances without wrapping
CircadianPhase_NoWrap(m, dt) == m.circadian_phase + dt \div 10000

\* SystemicMetabolism.update: the circadian phase advanced by dt / 10000 modulo 2 pi
CircadianPhase(m, dt) == (m.circadian_phase + dt \div 10000) % TwoPi

\* SystemicMetabolism.update(dt, movement_intensity, neural_activity)
SystemicMetabolism_update(m, dt, movement_intensity, neural_activity) ==
    LET neural == Frac(9, 10, m.neural_activity_level) + Frac(1, 10, neural_activity)
        movement == Frac(9, 10, m.movement_activity_level) + Frac(1, 10, movement_intensity)
        total_activity == neural + movement
        recovery_factor == Scale - Frac(5, 10, m.fatigue_level)
        glucose == m.glucose_level
                   - Rated(m.glucose_consumption_rate, Scale + total_activity, dt)
                   + Rated(m.glucose_recovery_rate, recovery_factor, dt)
        oxygen == m.oxygen_level
                  - Rated(m.oxygen_consumption_rate, Scale + total_activity, dt)
                  + Rated(m.oxygen_recovery_rate, recovery_factor, dt)
        lactate == Mul(m.lactate_level + Frac(1, 100, Mul(total_activity, dt)),
                       Decay(dt, 100 * Scale))
        phase == CircadianPhase(m, dt)
        time_of_day_fatigue == Frac(3, 10, Scale - Cos(phase)) \div 2
        activity_fatigue == Frac(2, 10, neural + movement)
        resource_fatigue == Frac(3, 10, Scale - (glucose + oxygen) \div 2)
    IN [m EXCEPT !.neural_activity_level = neural,
                 !.movement_activity_level = movement,
                 !.glucose_level = Clip(glucose, 0, Frac(15, 10, Scale)),
                 !.oxygen_level = Clip(oxygen, 0, Frac(15, 10, Scale)),
                 !.lactate_level = lactate,
                 !.circadian_phase = phase,
                 !.fatigue_level = Clip(time_of_day_fatigue + activity_fatigue + resource_fatigue,
                                        0, Scale)]

\* SystemicMetabolism.reset()
SystemicMetabolism_reset(m) ==
    [m EXCEPT !.glucose_level = Scale,
              !.oxygen_level = Scale,
              !.lactate_level = Frac(1, 10, Scale),
              !.fatigue_level = 0,
              !.circadian_phase = 0]

(***************************************************************************)
(* Angles and vectors                                                      *)
(***************************************************************************)
Pi == TwoPi \div 2

\* np.sin(x) for x in [0, 2 pi)
Sin(x) == Cos((x + TwoPi - Pi \div 2) % TwoPi)

\* arctan(z) for z in [0, 1]: z * (pi/4 + 0.273 * (1 - z))
AtanUnit(z) == Mul(z, Pi \div 4 + Mul(Frac(273, 1000, Scale), Scale - z))

\* np.arctan2(y, x), in (-pi, pi]
Atan2(y, x) ==
    IF x = 0 /\ y = 0 THEN 0
    ELSE LET ay == Abs(y)
             ax == Abs(x)
             a == IF ay <= ax THEN AtanUnit(Div(ay, ax)) ELSE Pi \div 2 - AtanUnit(Div(ax, ay))
             b == IF x < 0 THEN Pi - a ELSE a
         IN IF y < 0 THEN -b ELSE b

\* np.linalg.norm(v) of a 2-vector: to the full resolution for components below 30, and
\* to the resolution 0.1 for longer vectors, whose squares leave the integer range
Norm(v) ==
    IF Abs(v[1]) < 30 * Scale /\ Abs(v[2]) < 30 * Scale
    THEN ISqrt(v[1] * v[1] + v[2] * v[2])
    ELSE (Scale \div 10) * ISqrt(DistSq(v, <<0, 0>>))

\* np.exp(-(difference ** 2) / (2 * 0.5 ** 2)) of an angle difference
AngleSelectivity(difference) == ExpNeg(2 * Mul(difference, difference))

\* np.mean of the spike outputs of a list of neurons
MeanSpike(neurons) == Mean([k \in 1..Len(neurons) |-> neurons[k].spike_output])

(***************************************************************************)
(* architecture/visual_system.py                                           *)
(***************************************************************************)
\* CenterSurroundFilter.__init__(position, filter_type=filter_type)
CenterSurroundFilter(position, filter_type) ==
    [ position |-> position,
      center_size |-> 10 * Scale,
      surround_size |-> 30 * Scale,
      filter_type |-> filter_type,
      center_neuron |-> LIFNeuron,
      surround_neuron |-> LIFNeuron,
      output |-> 0 ]

\* np.exp(-(distance ** 2) / (2 * size ** 2)) for the squared distance in units of 0.1 x 0.1
GaussianResponse(distance_sq, size) ==
    LET s == size \div (Scale \div 10) IN ExpNeg(Div(distance_sq, 2 * s * s))

\* CenterSurroundFilter.process(stimulus)
CenterSurroundFilter_process(f, stimulus) ==
    LET distance_sq == DistSq(stimulus, f.position)
        center_response == GaussianResponse(distance_sq, f.center_size)
        surround_response == GaussianResponse(distance_sq, f.surround_size)
        drive == IF f.filter_type = "on_center"
                 THEN center_response - Frac(3, 10, surround_response)
                 ELSE surround_response - Frac(3, 10, center_response)
        input_current == 20 * Clip(drive, 0, Scale)
        center_neuron == LIFNeuron_integrate(f.center_neuron, Frac(1, 100, Scale), input_current)
    IN [f EXCEPT !.center_neuron = center_neuron,
                 !.output = center_neuron.spike_output]

\* RetinalProcessing.__init__(visual_field_size, num_filters_per_side): filter k - 1 is
\* cell (i, j) = ((k - 1) div n, (k - 1) mod n) of the grid
RetinalProcessing(visual_field_size, num_filters_per_side) ==
    LET n == num_filters_per_side
        i(k) == (k - 1) \div n
        j(k) == (k - 1) % n
    IN [ visual_field_size |-> visual_field_size,
         num_filters_per_side |-> n,
         filters |->
            [k \in 1..(n * n) |->
                CenterSurroundFilter(
                    << ((2 * i(k) + 1) * visual_field_size[1] * Scale) \div (2 * n),
                       ((2 * j(k) + 1) * visual_field_size[2] * Scale) \div (2 * n) >>,
                    IF (i(k) + j(k)) % 2 = 0 THEN "on_center" ELSE "off_center")],
         retinal_output |-> [k \in 1..(n * n) |-> 0],
         processed_image |-> None ]

\* the inner loop of process_visual_input over the objects of the scene for one filter:
\* <<filter, total_response>> after the objects of visual_scene from index k on
RECURSIVE FilterScene(_, _, _, _)
FilterScene(f, total_response, visual_scene, k) ==
    IF k > Len(visual_scene) THEN <<f, total_response>>
    ELSE LET obj == visual_scene[k]
             f1 == CenterSurroundFilter_process(f, <<obj[1], obj[2]>>)
         IN FilterScene(f1, total_response + Mul(f1.output, obj[3]), visual_scene, k + 1)

\* RetinalProcessing.process_visual_input(visual_scene)
process_visual_input(r, visual_scene) ==
    LET done == [k \in 1..Len(r.filters) |-> FilterScene(r.filters[k], 0, visual_scene, 1)]
        retinal_output == [k \in 1..Len(r.filters) |-> done[k][2]]
    IN [r EXCEPT !.filters = [k \in 1..Len(r.filters) |-> done[k][1]],
                 !.retinal_output = retinal_output,
                 !.processed_image = Some(retinal_output)]

(***************************************************************************)
(* architecture/tectum.py                                                  *)
(***************************************************************************)
\* TectalColumn.__init__(position, preferred_direction).  The two matrices of
\* BiologicalSynapse objects the constructor also builds are read and written by no
\* method and are left out of the record.
TectalColumn(position, preferred_direction) ==
    [ position |-> position,
      preferred_direction |-> preferred_direction,
      pyramidal_neurons |-> [k \in 1..8 |-> PyramidalNeuron],
      interneurons |-> [k \in 1..4 |-> FastSpikingInterneuron],
      output_neurons |-> [k \in 1..2 |-> PyramidalNeuron],
      output |-> 0,
      direction_selectivity |-> Scale ]

\* TectalColumn.process_visual_input(visual_input, motion_vector)
TectalColumn_process_visual_input(c, visual_input, motion_vector) ==
    LET step == Frac(1, 100, Scale)
        difference == Abs(Atan2(motion_vector[2], motion_vector[1]) - c.preferred_direction)
        selectivity == IF Norm(motion_vector) > Frac(1, 100, Scale)
                       THEN AngleSelectivity(Min(difference, TwoPi - difference))
                       ELSE Frac(5, 10, Scale)
        input_current == Mul(selectivity, 10 * visual_input)
        pyramidal == [k \in 1..Len(c.pyramidal_neurons) |->
                         PyramidalNeuron_integrate(c.pyramidal_neurons[k], step, input_current, 0)]
        inter_input == 15 * MeanSpike(pyramidal)
        inter == [k \in 1..Len(c.interneurons) |->
                     FastSpikingInterneuron_integrate(c.interneurons[k], step, inter_input)]
        exc_input == 10 * MeanSpike(pyramidal)
        inh_input == 5 * MeanSpike(inter)
        out == [k \in 1..Len(c.output_neurons) |->
                   PyramidalNeuron_integrate(c.output_neurons[k], step, exc_input - inh_input, 0)]
    IN [c EXCEPT !.direction_selectivity = selectivity,
                 !.pyramidal_neurons = pyramidal,
                 !.interneurons = inter,
                 !.output_neurons = out,
                 !.output = MeanSpike(out)]

\* Tectum.__init__(columns)
Tectum(columns) ==
    [ num_columns |-> columns,
      columns |-> [k \in 1..columns |->
                      TectalColumn(<<((k - 1) % 4) * 100 * Scale, ((k - 1) \div 4) * 100 * Scale>>,
                                   ((k - 1) * TwoPi) \div columns)],
      tectal_output |-> [k \in 1..columns |-> 0],
      dominant_direction |-> 0 ]

\* np.mean(motion_vectors, axis=0)
MeanVector(motion_vectors) ==
    << Mean([k \in 1..Len(motion_vectors) |-> motion_vectors[k][1]]),
       Mean([k \in 1..Len(motion_vectors) |-> motion_vectors[k][2]]) >>

\* np.argmax(seq): the first index of the maximum, counted from 0
ArgMax(seq) ==
    (CHOOSE k \in 1..Len(seq) :
        /\ \A m \in 1..Len(seq) : seq[m] <= seq[k]
        /\ \A m \in 1..(k - 1) : seq[m] < seq[k]) - 1

\* Tectum.process(retinal_input, motion_vectors)
Tectum_process(t, retinal_input, motion_vectors) ==
    LET mean_visual_input == IF Len(retinal_input) > 0 THEN Mean(retinal_input) ELSE 0
        aggregated_motion == IF Len(motion_vectors) > 0 THEN MeanVector(motion_vectors)
                             ELSE <<0, 0>>
        columns == [k \in 1..Len(t.columns) |->
                       TectalColumn_process_visual_input(t.columns[k], mean_visual_input,
                                                         aggregated_motion)]
        tectal_output == [k \in 1..Len(columns) |-> columns[k].output]
    IN [t EXCEPT !.columns = columns,
                 !.tectal_output = tectal_output,
                 !.dominant_direction =
                     IF Sum(tectal_output) > 0
                     THEN (ArgMax(tectal_output) * TwoPi) \div t.num_columns
                     ELSE @]

\* TectalColumn.reset()
TectalColumn_reset(c) ==
    [c EXCEPT !.pyramidal_neurons = [k \in 1..Len(@) |-> LIFNeuron_reset(@[k])],
              !.interneurons = [k \in 1..Len(@) |-> LIFNeuron_reset(@[k])],
              !.output_neurons = [k \in 1..Len(@) |-> LIFNeuron_reset(@[k])]]

\* Tectum.reset(): dominant_direction is left as it is
Tectum_reset(t) ==
    [t EXCEPT !.columns = [k \in 1..Len(@) |-> TectalColumn_reset(@[k])],
              !.tectal_output = [k \in 1..t.num_columns |-> 0]]

\* Tectum.get_movement_command()
get_movement_command(t) ==
    IF Sum(t.tectal_output) = 0 THEN <<0, 0>>
    ELSE LET magnitude == Sum(t.tectal_output) \div t.num_columns
         IN <<Mul(magnitude, Cos(t.dominant_direction)), Mul(magnitude, Sin(t.dominant_direction))>>

(***************************************************************************)
(* architecture/motor_hierarchy.py                                         *)
(***************************************************************************)
\* MotorHierarchy.__init__
MotorHierarchy ==
    [ executive_neurons |-> [k \in 1..4 |-> PyramidalNeuron],
      coordination_interneurons |-> [k \in 1..8 |-> FastSpikingInterneuron],
      motor_neurons |-> [k \in 1..12 |-> PyramidalNeuron],
      proprioceptive_input |-> [k \in 1..12 |-> 0],
      movement_state |-> "idle",
      current_movement_command |-> <<0, 0>>,
      muscle_activation |-> [k \in 1..12 |-> 0] ]

\* MotorHierarchy.execute_movement_command(command, proprioceptive_feedback)
execute_movement_command(h, command, proprioceptive_feedback) ==
    LET step == Frac(1, 100, Scale)
        magnitude == Norm(command)
        input_angle == Atan2(command[2], command[1])
        current(k) ==
            IF magnitude > Frac(1, 100, Scale)
            THEN LET angle_diff == Abs(input_angle - ((k - 1) * TwoPi) \div 4)
                 IN 15 * Mul(magnitude, AngleSelectivity(Min(angle_diff, TwoPi - angle_diff)))
            ELSE 0
        executive == [k \in 1..Len(h.executive_neurons) |->
                         PyramidalNeuron_integrate(h.executive_neurons[k], step, current(k), 0)]
        inter == [k \in 1..Len(h.coordination_interneurons) |->
                     FastSpikingInterneuron_integrate(h.coordination_interneurons[k], step,
                                                      10 * MeanSpike(executive))]
        exc_input == 10 * MeanSpike(inter)
        inh_feedback(k) == IF k <= Len(proprioceptive_feedback)
                           THEN 5 * proprioceptive_feedback[k] ELSE 0
        motor == [k \in 1..Len(h.motor_neurons) |->
                     PyramidalNeuron_integrate(h.motor_neurons[k], step,
                                               exc_input - inh_feedback(k), 0)]
    IN [h EXCEPT !.executive_neurons = executive,
                 !.coordination_interneurons = inter,
                 !.motor_neurons = motor,
                 !.muscle_activation = [k \in 1..Len(motor) |-> motor[k].spike_output],
                 !.current_movement_command = command]

(***************************************************************************)
(* bio_frog_agent.py: BioFrogBrain                                         *)
(***************************************************************************)
\* FunctionalPlasticityManager.__init__
FunctionalPlasticityManager ==
    [ learning_rate |-> Frac(1, 100, Scale),
      homeostatic_target |-> Frac(3, 10, Scale),
      homeostatic_learning_rate |-> 10,
      synaptic_scaling_enabled |-> TRUE,
      intrinsic_plasticity_enabled |-> TRUE ]

\* the methods class FunctionalPlasticityManager defines
FunctionalPlasticityManager_methods ==
    {"__init__", "apply_homeostatic_scaling", "apply_intrinsic_plasticity"}

\* BioFrogBrain.__init__(space_size, juvenile_mode, dt): the brain's own fields and its
\* sensory and motor stages; its neuromodulator field, glial network, metabolism, structural
\* manager and synapse list are the variables of those names.  homeostatic_learning_rate is
\* in units of 1/RateScale.
BioFrogBrain(space_size, mode, dt) ==
    [ space_size |-> space_size,
      dt |-> dt,
      is_juvenile |-> mode,
      juvenile_duration |-> JuvenileDuration,
      juvenile_age |-> 0,
      visual_system |-> RetinalProcessing(space_size, FiltersPerSide),
      tectum |-> Tectum(BrainColumns),
      motor_hierarchy |-> MotorHierarchy,
      dopamine_level |-> IF mode THEN Frac(85, 100, Scale) ELSE Frac(5, 10, Scale),
      serotonin_level |-> IF mode THEN Frac(75, 100, Scale) ELSE Frac(5, 10, Scale),
      functional_plasticity |-> FunctionalPlasticityManager,
      steps |-> 0,
      activity_history |-> << >>,
      reward_history |-> << >>,
      dopamine_history |-> << >>,
      last_catch_reward |-> 0,
      exploration_bonus |-> 0 ]

\* an end-of-childhood check that lets the brain stay juvenile at age = duration
JuvenileCheck_Late(b) ==
    [b EXCEPT !.is_juvenile = IF @ /\ b.juvenile_age > b.juvenile_duration THEN FALSE ELSE @]

\* BioFrogBrain.update, the end-of-childhood check
JuvenileCheck(b) ==
    [b EXCEPT !.is_juvenile = IF @ /\ b.juvenile_age >= b.juvenile_duration THEN FALSE ELSE @]

\* a dopamine level computed from the adult baseline at every age
DopamineLevel_AdultBaseline(b, reward) ==
    Clip(Frac(5, 10, Scale) + Frac(3, 10, reward) + Frac(2, 10, b.exploration_bonus), 0, Scale)

\* update_neuromodulation: the dopamine level
DopamineLevel(b, reward) ==
    LET reward_component == Frac(3, 10, reward)
        exploration_component == Frac(2, 10, b.exploration_bonus)
    IN Clip((IF b.is_juvenile THEN Frac(85, 100, Scale) ELSE Frac(5, 10, Scale))
            + reward_component + exploration_component, 0, Scale)

\* update_neuromodulation: the serotonin level
SerotoninLevel(b, glucose_level) ==
    LET energy_component == glucose_level \div 2
    IN Clip((IF b.is_juvenile THEN Frac(75, 100, Scale) ELSE Frac(5, 10, Scale))
            + Frac(1, 10, energy_component), 0, Scale)

\* update_neuromodulation: the release at the centre of the brain and the diffusion step
NeuromodulatorField(nts, reward, dt) ==
    diffuse(IF reward > 0 THEN release(nts, <<400, 300>>, reward, "dopamine") ELSE nts, dt)

\* apply_plasticity: self.functional_plasticity.update() finds no such attribute
PlasticityRaises(syns) ==
    Len(syns) > 0 /\ "update" \notin FunctionalPlasticityManager_methods

\* BioFrogBrain.update: the stages one call completes, in the order it runs them.  The
\* plasticity stage is entered only with a non-empty synapse list, and an exception raised
\* in it ends the call.
StagesCompleted(syns) ==
    <<"developmental_check", "sensory", "direction_relay", "motor", "neuromodulation",
      "field_diffusion", "metabolism">>
    \o (IF Len(syns) > 0 /\ ~PlasticityRaises(syns) THEN <<"plasticity">> ELSE << >>)
    \o (IF PlasticityRaises(syns) THEN << >> ELSE <<"glial">>)

(***************************************************************************)
(* bio_frog_agent.py: BioFrogAgent; simulation.py: BioFlyCatchingSimulation *)
(***************************************************************************)
\* BioFrogAgent.__init__(space, position, bio_mode, juvenile_mode, training_mode,
\* instinct_mode): the agent's own fields. The physics body is not modelled, and the
\* BioFrogBrain((800, 600), juvenile_mode, 0.01) it builds is held by the variable brain.
BioFrogAgent(position, bio_mode, training_mode, instinct_mode) ==
    [ position |-> position,
      bio_mode |-> bio_mode,
      training_mode |-> training_mode,
      instinct_mode |-> instinct_mode,
      energy |-> Scale,
      caught_flies |-> 0,
      steps |-> 0,
      last_catch_time |-> 0,
      visual_range |-> 200 * Scale,
      tongue_extended |-> FALSE,
      tongue_length |-> 0,
      tongue_target |-> None,
      attached_fly |-> None,
      hit_radius |-> IF training_mode \/ instinct_mode THEN 25 * Scale ELSE 80 * Scale,
      success_prob |-> IF training_mode \/ instinct_mode
                       THEN Frac(25, 100, Scale) ELSE Frac(8, 10, Scale),
      catch_cooldown |-> 30 ]

\* the brain a BioFrogAgent builds
AgentBrain(mode) == BioFrogBrain(<<800, 600>>, mode, Frac(1, 100, Scale))

\* Fly.__init__(space, position): the position of the body and the alive flag
Fly(position) == [position |-> position, alive |-> TRUE]

\* spawn_flies(count): count flies appended, each at the position drawn for it
spawn_flies(flies, count, positions) == flies \o [k \in 1..count |-> Fly(positions[k])]

\* BioFlyCatchingSimulation.__init__(width, height, skip_training, bio_mode,
\* juvenile_mode, num_flies, headless = True): the simulation's own fields; positions are
\* the random positions drawn for the num_flies flies spawned
BioFlyCatchingSimulation(width, height, bio_mode, mode, num_flies, positions) ==
    [ width |-> width,
      height |-> height,
      bio_mode |-> bio_mode,
      juvenile_mode |-> mode,
      num_flies |-> num_flies,
      headless |-> TRUE,
      dt |-> Frac(1, 100, Scale),
      physics_dt |-> Frac(1, 100, Scale),
      flies |-> spawn_flies(<< >>, num_flies, positions),
      step_count |-> 0,
      caught_count |-> 0,
      energy_history |-> << >>,
      dopamine_history |-> << >>,
      catch_history |-> << >>,
      juvenile_history |-> << >> ]

\* the agent BioFlyCatchingSimulation.__init__ builds: training_mode = not skip_training,
\* instinct_mode = skip_training
Simulation_frog(width, height, skip_training, bio_mode) ==
    BioFrogAgent(<<(width \div 2) * Scale, (height \div 2) * Scale>>, bio_mode,
                 ~skip_training, skip_training)

\* the agent BioFlyCatchingSimulation.reset_simulation builds: both regime flags are left
\* at their defaults
reset_simulation_frog(sim) ==
    BioFrogAgent(<<(sim.width \div 2) * Scale, (sim.height \div 2) * Scale>>, sim.bio_mode,
                 FALSE, FALSE)

\* BioFlyCatchingSimulation.reset_simulation(): the simulation's own fields afterwards;
\* positions are the random positions drawn for the flies spawned anew
reset_simulation(sim, positions) ==
    [sim EXCEPT !.flies = spawn_flies(<< >>, sim.num_flies, positions),
                !.step_count = 0,
                !.caught_count = 0,
                !.energy_history = << >>,
                !.dopamine_history = << >>,
                !.catch_history = << >>,
                !.juvenile_history = << >>]

\* np.linalg.norm(p - q), to the resolution 0.1 of DistSq
Distance(p, q) == (Scale \div 10) * ISqrt(DistSq(p, q))

\* np.argmin(values): the first index of a smallest entry
ArgMin(values) ==
    CHOOSE k \in 1..Len(values) :
        /\ \A m \in 1..Len(values) : values[k] <= values[m]
        /\ \A m \in 1..(k - 1) : values[m] > values[k]

\* BioFrogAgent.detect_flies(flies): the indices, in list order, of the flies within the
\* visual range.  The positions of the simulation's flies are pymunk vectors, which are
\* tuples and pass the isinstance test; a fly is listed whether it is alive or not.
DetectedFlies(f, flies) ==
    LET inRange(k) == Distance(flies[k].position, f.position) < f.visual_range
    IN SelectSeq([k \in 1..Len(flies) |-> k], inRange)

\* detect_flies, the visual scene: (x, y, brightness) of every detected fly
detect_flies_scene(f, flies) ==
    LET seen == DetectedFlies(f, flies)
    IN [j \in 1..Len(seen) |->
          LET position == flies[seen[j]].position
              distance == Distance(position, f.position)
          IN <<position[1], position[2], Max(0, Scale - Div(distance, f.visual_range))>>]

\* detect_flies, the motion vectors: the offset of every detected fly from the agent
detect_flies_vectors(f, flies) ==
    LET seen == DetectedFlies(f, flies)
    IN [j \in 1..Len(seen) |->
          <<flies[seen[j]].position[1] - f.position[1],
            flies[seen[j]].position[2] - f.position[2]>>]

\* BioFrogAgent.extend_tongue(target_position)
extend_tongue(f, target_position) ==
    IF ~f.tongue_extended /\ target_position # None
    THEN [f EXCEPT !.tongue_extended = TRUE,
                   !.tongue_target = target_position,
                   !.tongue_length = 0]
    ELSE f

\* BioFrogAgent.retract_tongue()
retract_tongue(f) ==
    [f EXCEPT !.tongue_extended = FALSE, !.tongue_length = 0, !.attached_fly = None]

\* a reward step that leaves the fly attached
AgentFeed_KeepsFly(f, dt) ==
    [f EXCEPT !.energy = Max(0, (IF f.attached_fly # None THEN Min(Scale, @ + Scale \div 2)
                                 ELSE @) - dt \div 10000)]

\* BioFrogAgent.update, step 2 before the brain is called: the reward for a fly attached
\* in the previous call (a Fly object is truthy), the energy it gives, and the energy cost
\* 0.0001 * dt of the call
AgentReward(f) == IF f.attached_fly # None THEN Scale ELSE 0

AgentFeed(f, dt) ==
    [f EXCEPT !.energy = Max(0, (IF f.attached_fly # None THEN Min(Scale, @ + Scale \div 2)
                                 ELSE @) - dt \div 10000),
              !.attached_fly = None]

\* BioFrogAgent.update, step 4, first half: with the tongue in and some fly detected, the
\* tongue is sent to flies[nearest_idx], where nearest_idx is the position of the shortest
\* motion vector in the list of the detected flies
AgentAim(f, flies) ==
    LET vectors == detect_flies_vectors(f, flies)
        distances == [j \in 1..Len(vectors) |-> Distance(vectors[j], <<0, 0>>)]
        nearest_idx == ArgMin(distances)
    IN IF ~f.tongue_extended /\ Len(vectors) > 0
       THEN IF distances[nearest_idx] < f.visual_range
            THEN extend_tongue(f, Some(flies[nearest_idx].position))
            ELSE f
       ELSE f

\* the direction of the extended tongue: target - position, normalised unless it is zero
TongueDirection(f) ==
    LET offset == <<f.tongue_target[1][1] - f.position[1],
                    f.tongue_target[1][2] - f.position[2]>>
        distance == Distance(f.tongue_target[1], f.position)
    IN IF distance > 0 THEN <<Div(offset[1], distance), Div(offset[2], distance)>>
       ELSE offset

\* a cooldown test that lets the agent catch once catch_cooldown steps have passed
CooldownOver_Inclusive(f) == f.steps - f.last_catch_time >= f.catch_cooldown

\* BioFrogAgent.update, the cooldown test of the catch check
CooldownOver(f) == f.steps - f.last_catch_time > f.catch_cooldown

\* BioFrogAgent.update, step 4, second half, for an extended tongue: the tongue grows by
\* 300 * dt and is retracted at length 150 or once it is longer than the way to the
\* target; then, unless a fly is attached or the cooldown is running, the first fly of
\* the list within hit_radius of the tongue's end whose draw is below success_prob is
\* attached.  draws[k] is the value random.random() returns if fly k is tried.
AgentStrike(f, dt, flies, draws) ==
    IF f.tongue_extended /\ f.tongue_target # None
    THEN LET direction == TongueDirection(f)
             distance == Distance(f.tongue_target[1], f.position)
             length == f.tongue_length + Mul(300 * Scale, dt)
             grown == [f EXCEPT !.tongue_length = length]
             moved == IF length >= 150 * Scale \/ distance < length
                      THEN retract_tongue(grown) ELSE grown
             tongue_end == <<moved.position[1] + Mul(direction[1], moved.tongue_length),
                             moved.position[2] + Mul(direction[2], moved.tongue_length)>>
             hit == {k \in 1..Len(flies) :
                        /\ Distance(flies[k].position, tongue_end) < moved.hit_radius
                        /\ draws[k] < moved.success_prob}
         IN IF /\ moved.attached_fly = None
               /\ CooldownOver(moved)
               /\ hit # {}
            THEN [moved EXCEPT !.attached_fly = Some(CHOOSE k \in hit : \A m \in hit : k <= m),
                               !.caught_flies = @ + 1,
                               !.last_catch_time = moved.steps]
            ELSE moved
    ELSE f

\* BioFrogAgent.update(dt, flies): the agent's own fields after the call; body_position is
\* the position of the physics body the call starts from.  attached_fly holds the index
\* of the attached fly in flies, and is the caught_fly of the returned record.
BioFrogAgent_update(f, dt, flies, body_position, draws) ==
    LET sensed == [f EXCEPT !.steps = @ + 1, !.position = body_position]
    IN AgentStrike(AgentAim(AgentFeed(sensed, dt), flies), dt, flies, draws)

\* respawn_dead_flies(): a new fly for every fly of num_flies that is not alive, appended
\* behind the flies already listed, which stay in the list dead or alive
respawn_dead_flies(sim, flies, positions) ==
    LET alive_flies == SelectSeq(flies, LAMBDA fly : fly.alive)
    IN spawn_flies(flies, sim.num_flies - Len(alive_flies), positions)

\* get_statistics()
get_statistics(sim, f, b) ==
    [ total_steps |-> sim.step_count,
      caught_flies |-> f.caught_flies,
      success_rate |-> IF sim.catch_history # << >>
                       THEN Div(Sum(sim.catch_history), Len(sim.catch_history)) ELSE 0,
      final_energy |-> f.energy,
      avg_dopamine |-> IF sim.dopamine_history # << >> THEN Mean(sim.dopamine_history)
                       ELSE 0,
      is_juvenile |-> b.is_juvenile,
      juvenile_age |-> b.juvenile_age ]

(***************************************************************************)
(* Constructors that can fail                                              *)
(***************************************************************************)
\* NeurotransmitterDiffusion.__init__: np.sqrt of a negative area is nan and int(nan)
\* raises ValueError; nothing else in the constructor looks at space_size
NeurotransmitterDiffusion_raises(space_size) == space_size[1] * space_size[2] < 0

\* GlialNetwork.__init__: int(np.sqrt(num_astrocytes)) raises ValueError for a negative
\* count
GlialNetwork_raises(num_astrocytes) == num_astrocytes < 0

\* Tectum.__init__: range(columns) is empty for a negative count, and np.zeros(columns)
\* raises ValueError
Tectum_raises(columns) == columns < 0

\* BioFrogBrain.__init__: RetinalProcessing(space_size) accepts every size, then
\* NeurotransmitterDiffusion(space_size); Tectum(16) and GlialNetwork(24) do not fail
BioFrogBrain_raises(space_size) == NeurotransmitterDiffusion_raises(space_size)

\* the outcome of a constructor call
Outcome(raises, instance) ==
    IF raises THEN [instance |-> None, raised |-> "ValueError"]
    ELSE [instance |-> Some(instance), raised |-> "none"]

(***************************************************************************)
(* The constructed state of the components a specification does not drive  *)
(***************************************************************************)
NoCall == [op |-> "none"]

IdleNeuron == neuron = LIFNeuron

IdleSynapses ==
    /\ synapses = << >>
    /\ structural = StructuralPlasticityManager

IdleSubsystems ==
    /\ neurotransmitter_system = NeurotransmitterDiffusion(<<20, 20>>)
    /\ glial_network = GlialNetwork(1, <<400 * Scale, 400 * Scale>>)
    /\ metabolism = SystemicMetabolism
    /\ under_test = "none"

IdleBrain ==
    /\ brain = BioFrogBrain(<<40, 40>>, TRUE, Frac(1, 100, Scale))
    /\ juvenile_mode = TRUE
    /\ raised = "none"

IdleEnergy == neuron_metabolism = NeuronMetabolism(Scale, 2 * Scale)

IdleTectum == tectum = Tectum(TectumColumns)

IdleConstruction == constructed = [instance |-> None, raised |-> "none"]

IdleAgent ==
    /\ simulation = BioFlyCatchingSimulation(800, 600, TRUE, TRUE, 15,
                                             [k \in 1..15 |-> <<100 * Scale, 100 * Scale>>])
    /\ frog = Simulation_frog(800, 600, FALSE, TRUE)

(***************************************************************************)
(* SpecNeuron: a driver calling integrate and reset on one neuron          *)
(***************************************************************************)
\* time steps the driver passes: 0, 1 ms and 1.5 ms
NeuronDts == {0, Scale, Frac(3, 2, Scale)}

\* drive currents: none, sub-threshold, supra-threshold
NeuronCurrents == {0, 300 * Scale, 800 * Scale}

\* apical drive of a pyramidal neuron: absent (None) or 1.0
ApicalInputs == {0, Scale}

InitNeuron ==
    /\ IdleBrain
    /\ neuron \in {NewNeuron(k) : k \in NeuronKinds}
    /\ IdleSynapses
    /\ IdleSubsystems
    /\ last = NoCall
    /\ IdleAgent
    /\ IdleEnergy
    /\ IdleTectum
    /\ IdleConstruction
    /\ calls = 0

NeuronIntegrate ==
    /\ calls < MaxCalls
    /\ \E dt \in NeuronDts, drive \in NeuronCurrents, apical \in ApicalInputs :
          /\ (neuron.kind # "PyramidalNeuron" => apical = 0)
          /\ neuron' = Integrate(neuron, dt, drive, apical)
          /\ last' = [op |-> "integrate", dt |-> dt, drive |-> drive, apical |-> apical,
                      refractory_before |-> neuron.refractory_counter]
    /\ calls' = calls + 1
    /\ UNCHANGED <<synapseVars, subsystemVars, brainVars, agentVars, energyVars, tectumVars, constructionVars>>

NeuronReset ==
    /\ calls < MaxCalls
    /\ neuron' = LIFNeuron_reset(neuron)
    /\ last' = [op |-> "reset"]
    /\ calls' = calls + 1
    /\ UNCHANGED <<synapseVars, subsystemVars, brainVars, agentVars, energyVars, tectumVars, constructionVars>>

NextNeuron == NeuronIntegrate \/ NeuronReset

SpecNeuron == InitNeuron /\ [][NextNeuron]_vars

\* C1: for every neuron variant and every dt >= 0, an integrate call made while
\* refractory_counter > 0 leaves spike_output = 0 and membrane_potential = rest_potential.
C1_RefractoryPinsToRest ==
    (last.op = "integrate" /\ last.refractory_before > 0) =>
        /\ neuron.spike_output = 0
        /\ neuron.membrane_potential = neuron.rest_potential

\* an integrate call with dt > 0 that found the neuron refractory right after its spike
C1_Witness ==
    /\ last.op = "integrate"
    /\ last.dt > 0
    /\ last.refractory_before = neuron.tau_refractory
    /\ neuron.refractory_counter < last.refractory_before

\* C8: reset() after any sequence of integrate calls leaves every field of the neuron,
\* the variant-specific state included, equal to that of a freshly constructed neuron.
C8_ResetRestoresFreshNeuron ==
    last.op = "reset" => neuron = NewNeuron(neuron.kind)

\* C14: for every neuron variant and every dt >= 0, refractory_counter >= 0 holds in every
\* reachable state, i.e. after any sequence of integrate and reset calls (including when dt
\* does not divide tau_refractory).
C14_RefractoryCounterNonNegative == neuron.refractory_counter >= 0

(***************************************************************************)
(* SpecSynapse: a driver building one synapse from a configuration and     *)
(* calling its learning rules                                              *)
(***************************************************************************)
MaxWeights == {Frac(5, 10, Scale), Scale}

MinWeights == {0, Frac(1, 10, Scale)}

\* initial_weight: absent, 0.0, 0.3, 0.7
InitialWeights == {None, Some(0), Some(Frac(3, 10, Scale)), Some(Frac(7, 10, Scale))}

\* spike times in ms: absent, 0, 10, 60
SpikeTimes == {None, Some(0), Some(10 * Scale), Some(60 * Scale)}

SynapseDts == {0, 10 * Scale, 100 * Scale}

\* modulator values a caller pushes: negative, and far above 1
ModulatorValues == {-Scale, 100 * Scale}

InitSynapse ==
    /\ IdleBrain
    /\ IdleNeuron
    /\ IdleSubsystems
    /\ \E max_weight \in MaxWeights, min_weight \in MinWeights,
          initial_weight \in InitialWeights, random_weight \in RandomWeights :
          synapses = <<BiologicalSynapse(max_weight, initial_weight, min_weight, random_weight)>>
    /\ structural = StructuralPlasticityManager
    /\ last = NoCall
    /\ IdleAgent
    /\ IdleEnergy
    /\ IdleTectum
    /\ IdleConstruction
    /\ calls = 0

SynapseStdp ==
    /\ calls < MaxCalls
    /\ \E i \in 1..Len(synapses), pre \in SpikeTimes, post \in SpikeTimes :
          /\ synapses' = [synapses EXCEPT ![i] = apply_stdp(@, pre, post)]
          /\ last' = [op |-> "apply_stdp", i |-> i, pre |-> pre, post |-> post]
    /\ calls' = calls + 1
    /\ UNCHANGED <<neuronVars, structural, subsystemVars, brainVars, agentVars, energyVars, tectumVars, constructionVars>>

SynapseStp ==
    /\ calls < MaxCalls
    /\ \E i \in 1..Len(synapses), dt \in SynapseDts, spike \in BOOLEAN :
          /\ synapses' = [synapses EXCEPT ![i] = apply_short_term_plasticity(@, dt, spike)]
          /\ last' = [op |-> "apply_short_term_plasticity", i |-> i, dt |-> dt, spike |-> spike]
    /\ calls' = calls + 1
    /\ UNCHANGED <<neuronVars, structural, subsystemVars, brainVars, agentVars, energyVars, tectumVars, constructionVars>>

SynapseModulators ==
    /\ calls < MaxCalls
    /\ \E i \in 1..Len(synapses), da \in ModulatorValues, se \in ModulatorValues :
          /\ synapses' = [synapses EXCEPT ![i] = update_modulators(@, da, se, @.acetylcholine_level)]
          /\ last' = [op |-> "update_modulators", i |-> i]
    /\ calls' = calls + 1
    /\ UNCHANGED <<neuronVars, structural, subsystemVars, brainVars, agentVars, energyVars, tectumVars, constructionVars>>

NextSynapse == SynapseStdp \/ SynapseStp \/ SynapseModulators

SpecSynapse == InitSynapse /\ [][NextSynapse]_vars

\* C2: for every synapse configuration, after any sequence of apply_stdp and
\* apply_short_term_plasticity calls the weight is in [min_weight, max_weight] and
\* current_efficacy is in [0.1, 2.0].
C2_WeightAndEfficacyBounded ==
    last.op \in {"apply_stdp", "apply_short_term_plasticity"} =>
    \A i \in 1..Len(synapses) :
        LET syn == synapses[i]
        IN /\ syn.min_weight <= syn.weight /\ syn.weight <= syn.max_weight
           /\ Frac(1, 10, Scale) <= syn.current_efficacy /\ syn.current_efficacy <= 2 * Scale

(***************************************************************************)
(* SpecStdp: a driver calling apply_stdp on one synapse, between pushes of *)
(* new modulator levels                                                    *)
(***************************************************************************)
\* initial_weight: 0.3 and 0.7
StdpWeights == {Frac(3, 10, Scale), Frac(7, 10, Scale)}

\* modulator levels a caller pushes: 0 and 1.0
StdpModulatorValues == {0, Scale}

InitStdp ==
    /\ IdleBrain
    /\ IdleNeuron
    /\ IdleSubsystems
    /\ \E max_weight \in MaxWeights, w \in StdpWeights :
          synapses = <<BiologicalSynapse(max_weight, Some(w), 0, w)>>
    /\ structural = StructuralPlasticityManager
    /\ last = NoCall
    /\ IdleAgent
    /\ IdleEnergy
    /\ IdleTectum
    /\ IdleConstruction
    /\ calls = 0

StdpCall ==
    /\ calls < MaxCalls
    /\ \E i \in 1..Len(synapses), pre \in SpikeTimes, post \in SpikeTimes :
          /\ synapses' = [synapses EXCEPT ![i] = apply_stdp(@, pre, post)]
          /\ last' = [op |-> "apply_stdp", i |-> i, pre |-> pre, post |-> post]
    /\ calls' = calls + 1
    /\ UNCHANGED <<neuronVars, structural, subsystemVars, brainVars, agentVars, energyVars,
                   tectumVars, constructionVars>>

StdpModulators ==
    /\ calls < MaxCalls
    /\ \E i \in 1..Len(synapses), level \in StdpModulatorValues :
          /\ synapses' = [synapses EXCEPT
                             ![i] = update_modulators(@, level, level, @.acetylcholine_level)]
          /\ last' = [op |-> "update_modulators", i |-> i]
    /\ calls' = calls + 1
    /\ UNCHANGED <<neuronVars, structural, subsystemVars, brainVars, agentVars, energyVars,
                   tectumVars, constructionVars>>

NextStdp == StdpCall \/ StdpModulators

SpecStdp == InitStdp /\ [][NextStdp]_vars

\* C24: apply_stdp leaves the synapse completely unchanged when either spike time is None
\* or when the absolute spike-time difference is not inside the STDP window (a difference
\* equal to the window included); when it acts it changes only the weight.
C24_StdpTouchesOnlyWeightInsideWindow ==
    [][ last'.op = "apply_stdp" =>
          LET pre == last'.pre
              post == last'.post
              i == last'.i
              inside == /\ pre # None /\ post # None
                        /\ Abs(post[1] - pre[1]) < synapses[i].stdp_window
          IN IF inside
             THEN synapses' = [synapses EXCEPT ![i].weight = synapses'[i].weight]
             ELSE synapses' = synapses
      ]_vars

\* the first call on a synapse built with weight 0.3 had a spike-time difference equal to the
\* window (10 ms and 60 ms) and left the weight where it was
C24_Witness ==
    /\ calls = 1
    /\ last.op = "apply_stdp"
    /\ last.pre = Some(10 * Scale) /\ last.post = Some(60 * Scale)
    /\ synapses[1].stdp_window = 50 * Scale
    /\ synapses[1].weight = Frac(3, 10, Scale)

(***************************************************************************)
(* SpecStructureFair: a driver that calls update_structure forever on a    *)
(* list of weak synapses; a random draw below the elimination probability  *)
(* cannot be withheld forever                                              *)
(***************************************************************************)
\* weights below the elimination threshold (0.005, 0.009) and in the dead zone (0.05)
WeakWeights == {Frac(5, 1000, Scale), Frac(9, 1000, Scale), Frac(5, 100, Scale)}

\* dt of a structural tick: 0, 0.01 and 1000
StructureDts == {0, Frac(1, 100, Scale), 1000 * Scale}

\* np.random.random(): the smallest and the largest value of [0, 1)
RandomDraws == {0, RandomUnit - 1}

InitStructureFair ==
    /\ IdleBrain
    /\ IdleNeuron
    /\ IdleSubsystems
    /\ \E n \in 1..MaxSynapses : \E ws \in [1..n -> WeakWeights], min_weight \in MinWeights :
          /\ \E i \in 1..n : ws[i] < StructuralPlasticityManager.synapse_elimination_threshold
          /\ synapses = [i \in 1..n |-> BiologicalSynapse(Scale, Some(ws[i]), min_weight, ws[i])]
    /\ structural = StructuralPlasticityManager
    /\ last = NoCall
    /\ IdleAgent
    /\ IdleEnergy
    /\ IdleTectum
    /\ IdleConstruction
    /\ calls = 0

\* one update_structure(synapses, neural_activity, dt) call with the given draws
StructureCall(dt, draws) ==
    /\ structural.eliminated_synapses_count < MaxEvents
    /\ LET r == update_structure(structural, synapses, dt, draws)
       IN /\ synapses' = r[1]
          /\ structural' = r[2]
    /\ last' = [op |-> "update_structure", dt |-> dt, draws |-> draws]
    /\ UNCHANGED <<neuronVars, subsystemVars, calls, brainVars, agentVars, energyVars, tectumVars, constructionVars>>

StructureUpdate ==
    \E dt \in StructureDts, draws \in [1..Len(synapses) -> RandomDraws] :
        StructureCall(dt, draws)

\* a call with dt > 0 in which every draw comes out below the elimination probability
StructureHit ==
    \E dt \in StructureDts \ {0} : StructureCall(dt, [i \in 1..Len(synapses) |-> 0])

NextStructureFair == StructureUpdate

SpecStructureFair ==
    InitStructureFair /\ [][NextStructureFair]_vars /\ WF_vars(StructureHit)

SubThreshold(syn) == syn.weight < structural.synapse_elimination_threshold

\* C7: a synapse whose weight is below the elimination threshold is, under repeated
\* update_structure calls with dt > 0 and fair draws, eventually recorded as eliminated;
\* an elimination zeroes the weight of a sub-threshold synapse, and a weight of 0 stays 0
\* under every further update_structure call.
C7_EventuallyEliminatedStaysZero ==
    /\ (\E i \in 1..Len(synapses) : SubThreshold(synapses[i]))
          ~> (structural.eliminated_synapses_count > 0)
    /\ [][ /\ (structural'.eliminated_synapses_count > structural.eliminated_synapses_count =>
                 \E i \in 1..Len(synapses) :
                     SubThreshold(synapses[i]) /\ synapses'[i].weight = 0)
           /\ \A i \in 1..Len(synapses) :
                 synapses[i].weight = 0 => synapses'[i].weight = 0 ]_vars

\* a synapse that started at 0.005 has been eliminated, and a later call with dt > 0 and a
\* hitting draw has found it at 0
C7_Witness ==
    /\ last.op = "update_structure"
    /\ last.dt > 0
    /\ structural.eliminated_synapses_count >= 2
    /\ Len(synapses) = 1
    /\ synapses[1].weight = 0

(***************************************************************************)
(* SpecStructure: a driver calling update_structure on a fixed list of     *)
(* synapses with weights on, between and outside the two thresholds        *)
(***************************************************************************)
\* starting weights: 0.005 (below the elimination threshold), 0.01 and 0.1 (the two
\* thresholds), 0.5 (above the creation threshold)
StructureWeights ==
    {Frac(5, 1000, Scale), Frac(1, 100, Scale), Frac(1, 10, Scale), Frac(5, 10, Scale)}

\* dt of a structural tick: 0 and 1000
StructureTickDts == {0, 1000 * Scale}

InitStructure ==
    /\ IdleBrain
    /\ IdleNeuron
    /\ IdleSubsystems
    /\ \E n \in 1..MaxSynapses : \E ws \in [1..n -> StructureWeights] :
          synapses = [i \in 1..n |-> BiologicalSynapse(Scale, Some(ws[i]), 0, ws[i])]
    /\ structural = StructuralPlasticityManager
    /\ last = NoCall
    /\ IdleAgent
    /\ IdleEnergy
    /\ IdleTectum
    /\ IdleConstruction
    /\ calls = 0

StructureTick ==
    /\ calls < MaxCalls
    /\ \E dt \in StructureTickDts, draws \in [1..Len(synapses) -> RandomDraws] :
          /\ LET r == update_structure(structural, synapses, dt, draws)
             IN /\ synapses' = r[1]
                /\ structural' = r[2]
          /\ last' = [op |-> "update_structure", dt |-> dt, draws |-> draws]
    /\ calls' = calls + 1
    /\ UNCHANGED <<neuronVars, subsystemVars, brainVars, agentVars, energyVars, tectumVars,
                   constructionVars>>

NextStructure == StructureTick

SpecStructure == InitStructure /\ [][NextStructure]_vars

\* the synapses of the list whose weight satisfies a test
Matching(Test(_)) == {i \in 1..Len(synapses) : Test(synapses[i].weight)}

AboveCreation(w) == w > structural.synapse_creation_threshold

BelowElimination(w) == w < structural.synapse_elimination_threshold

\* C21: in one update_structure call no synapse is both grown and eliminated (a grown
\* synapse is counted as created only and is not zeroed, a synapse that can be eliminated
\* is never counted as created), and a synapse whose weight lies in the dead zone
\* [0.01, 0.1], bounds included, is left unchanged and adds to neither counter.
C21_GrowthAndEliminationExclusive ==
    [][ /\ structural'.created_synapses_count - structural.created_synapses_count
              = Cardinality(Matching(AboveCreation))
        /\ structural'.eliminated_synapses_count - structural.eliminated_synapses_count
              <= Cardinality(Matching(BelowElimination))
        /\ \A i \in 1..Len(synapses) :
              LET w == synapses[i].weight
              IN /\ AboveCreation(w) => synapses'[i].weight >= w
                 /\ BelowElimination(w) => synapses'[i].weight \in {w, 0}
                 /\ (~AboveCreation(w) /\ ~BelowElimination(w)) => synapses'[i] = synapses[i]
      ]_vars

\* a call with dt > 0 and hitting draws has left a synapse at each threshold untouched and
\* counted nothing
C21_Witness ==
    /\ last.op = "update_structure"
    /\ last.dt > 0
    /\ Len(synapses) = 2
    /\ last.draws = <<0, 0>>
    /\ synapses[1].weight = structural.synapse_elimination_threshold
    /\ synapses[2].weight = structural.synapse_creation_threshold
    /\ structural.created_synapses_count = 0
    /\ structural.eliminated_synapses_count = 0

\* C29: each synapse contributes at most one elimination event: after any sequence of
\* update_structure calls on a fixed list, eliminated_synapses_count is at most the number
\* of synapses in the list.
C29_AtMostOneEliminationPerSynapse ==
    structural.eliminated_synapses_count <= Len(synapses)

(***************************************************************************)
(* SpecPlasticity: a driver interleaving apply_stdp and update_structure   *)
(* on a list of synapses that start inside their weight bounds             *)
(***************************************************************************)
\* lower weight bounds: 0 and 0.005
PlasticityMinWeights == {0, Frac(5, 1000, Scale)}

\* starting weights: 0.008 (below the elimination threshold), 0.5 and 0.995 (both above
\* the creation threshold)
PlasticityWeights == {Frac(8, 1000, Scale), Frac(5, 10, Scale), Frac(995, 1000, Scale)}

\* spike times in ms: absent, 0, 10
PlasticitySpikeTimes == {None, Some(0), Some(10 * Scale)}

InitPlasticity ==
    /\ IdleBrain
    /\ IdleNeuron
    /\ IdleSubsystems
    /\ \E n \in 1..MaxSynapses :
          \E ws \in [1..n -> PlasticityWeights], min_weight \in PlasticityMinWeights :
              synapses = [i \in 1..n |-> BiologicalSynapse(Scale, Some(ws[i]), min_weight, ws[i])]
    /\ structural = StructuralPlasticityManager
    /\ last = NoCall
    /\ IdleAgent
    /\ IdleEnergy
    /\ IdleTectum
    /\ IdleConstruction
    /\ calls = 0

PlasticityStdp ==
    /\ calls < MaxCalls
    /\ \E i \in 1..Len(synapses), pre \in PlasticitySpikeTimes, post \in PlasticitySpikeTimes :
          /\ synapses' = [synapses EXCEPT ![i] = apply_stdp(@, pre, post)]
          /\ last' = [op |-> "apply_stdp", i |-> i, pre |-> pre, post |-> post]
    /\ calls' = calls + 1
    /\ UNCHANGED <<neuronVars, structural, subsystemVars, brainVars, agentVars, energyVars, tectumVars, constructionVars>>

PlasticityStructure ==
    /\ calls < MaxCalls
    /\ \E dt \in StructureDts, draws \in [1..Len(synapses) -> RandomDraws] :
          /\ LET r == update_structure(structural, synapses, dt, draws)
             IN /\ synapses' = r[1]
                /\ structural' = r[2]
          /\ last' = [op |-> "update_structure", dt |-> dt, draws |-> draws]
    /\ calls' = calls + 1
    /\ UNCHANGED <<neuronVars, subsystemVars, brainVars, agentVars, energyVars, tectumVars, constructionVars>>

NextPlasticity == PlasticityStdp \/ PlasticityStructure

SpecPlasticity == InitPlasticity /\ [][NextPlasticity]_vars

\* C12: a synapse that starts with min_weight <= weight <= max_weight keeps its weight
\* inside [min_weight, max_weight] after any interleaving of apply_stdp and
\* update_structure calls (growth and elimination), also when min_weight > 0.
C12_WeightStaysInBounds ==
    \A i \in 1..Len(synapses) :
        /\ synapses[i].min_weight <= synapses[i].weight
        /\ synapses[i].weight <= synapses[i].max_weight

(***************************************************************************)
(* SpecSubsystems: a driver exercising one of the stateful subsystems: the *)
(* neuromodulator field, the glial network or the systemic metabolism      *)
(***************************************************************************)
\* arenas whose field has 1 x 1 up to MaxGrid x MaxGrid cells
SpaceSizes == {<<20 * g, 20 * g>> : g \in 1..MaxGrid}

\* release positions: left of the arena, and the orchestrator's (400, 300)
ReleasePositions == {<<-5, 30>>, <<400, 300>>}

ReleaseAmounts == {Frac(5, 10, Scale), 2 * Scale}

TransmitterTypes == {"dopamine", "serotonin", "acetylcholine", "gaba"}

\* dt of a diffusion step: 0 and 100
FieldDts == {0, 100 * Scale}

AstrocyteCounts == {1, 4}

\* <<neural_positions, neural_activity_map>>: no neuron; one neuron beside an astrocyte,
\* active or silent; one neuron in a corner, away from every astrocyte
NeuralInputs ==
    { << << >>, << >> >>,
      << << <<100 * Scale, 100 * Scale>> >>, <<Frac(5, 10, Scale)>> >>,
      << << <<100 * Scale, 100 * Scale>> >>, <<0>> >>,
      << << <<390 * Scale, 10 * Scale>> >>, <<Frac(5, 10, Scale)>> >> }

\* dt of a metabolism step: 0, 1, 100, and 30000 (three such steps wrap the circadian phase)
MetabolismDts == {0, Scale, 100 * Scale, 30000 * Scale}

ActivityLevels == {0, Scale}

InitSubsystems ==
    /\ IdleBrain
    /\ IdleNeuron
    /\ IdleSynapses
    /\ under_test \in {"field", "glial", "metabolism"}
    /\ neurotransmitter_system \in
          IF under_test = "field" THEN {NeurotransmitterDiffusion(sz) : sz \in SpaceSizes}
          ELSE {NeurotransmitterDiffusion(<<20, 20>>)}
    /\ glial_network \in
          IF under_test = "glial"
          THEN {GlialNetwork(n, <<400 * Scale, 400 * Scale>>) : n \in AstrocyteCounts}
          ELSE {GlialNetwork(1, <<400 * Scale, 400 * Scale>>)}
    /\ metabolism = SystemicMetabolism
    /\ last = NoCall
    /\ IdleAgent
    /\ IdleEnergy
    /\ IdleTectum
    /\ IdleConstruction
    /\ calls = 0

FieldRelease ==
    /\ under_test = "field" /\ calls < MaxFieldCalls
    /\ \E position \in ReleasePositions, amount \in ReleaseAmounts, type \in TransmitterTypes :
          /\ neurotransmitter_system' = release(neurotransmitter_system, position, amount, type)
          /\ last' = [op |-> "release", amount |-> amount, type |-> type]
    /\ calls' = calls + 1
    /\ UNCHANGED <<neuronVars, synapseVars, glial_network, metabolism, under_test, brainVars, agentVars, energyVars, tectumVars, constructionVars>>

FieldDiffuse ==
    /\ under_test = "field" /\ calls < MaxFieldCalls
    /\ \E dt \in FieldDts :
          /\ neurotransmitter_system' = diffuse(neurotransmitter_system, dt)
          /\ last' = [op |-> "diffuse", dt |-> dt]
    /\ calls' = calls + 1
    /\ UNCHANGED <<neuronVars, synapseVars, glial_network, metabolism, under_test, brainVars, agentVars, energyVars, tectumVars, constructionVars>>

FieldReset ==
    /\ under_test = "field" /\ calls < MaxFieldCalls
    /\ neurotransmitter_system' = NeurotransmitterDiffusion_reset(neurotransmitter_system)
    /\ last' = [op |-> "reset"]
    /\ calls' = calls + 1
    /\ UNCHANGED <<neuronVars, synapseVars, glial_network, metabolism, under_test, brainVars, agentVars, energyVars, tectumVars, constructionVars>>

GlialUpdate ==
    /\ under_test = "glial" /\ calls < MaxCalls
    /\ \E input \in NeuralInputs, dt \in FieldDts :
          /\ glial_network' = GlialNetwork_update(glial_network, input[2], input[1], dt)
          /\ last' = [op |-> "update", dt |-> dt, positions |-> input[1], activity |-> input[2]]
    /\ calls' = calls + 1
    /\ UNCHANGED <<neuronVars, synapseVars, neurotransmitter_system, metabolism, under_test, brainVars, agentVars, energyVars, tectumVars, constructionVars>>

GlialReset ==
    /\ under_test = "glial" /\ calls < MaxCalls
    /\ glial_network' = GlialNetwork_reset(glial_network)
    /\ last' = [op |-> "reset"]
    /\ calls' = calls + 1
    /\ UNCHANGED <<neuronVars, synapseVars, neurotransmitter_system, metabolism, under_test, brainVars, agentVars, energyVars, tectumVars, constructionVars>>

MetabolismUpdate ==
    /\ under_test = "metabolism" /\ calls < MaxCalls
    /\ \E dt \in MetabolismDts, movement \in ActivityLevels, neural \in ActivityLevels :
          /\ metabolism' = SystemicMetabolism_update(metabolism, dt, movement, neural)
          /\ last' = [op |-> "update", dt |-> dt,
                      phase_before |-> metabolism.circadian_phase]
    /\ calls' = calls + 1
    /\ UNCHANGED <<neuronVars, synapseVars, neurotransmitter_system, glial_network, under_test, brainVars, agentVars, energyVars, tectumVars, constructionVars>>

MetabolismReset ==
    /\ under_test = "metabolism" /\ calls < MaxCalls
    /\ metabolism' = SystemicMetabolism_reset(metabolism)
    /\ last' = [op |-> "reset"]
    /\ calls' = calls + 1
    /\ UNCHANGED <<neuronVars, synapseVars, neurotransmitter_system, glial_network, under_test, brainVars, agentVars, energyVars, tectumVars, constructionVars>>

NextSubsystems ==
    \/ FieldRelease \/ FieldDiffuse \/ FieldReset
    \/ GlialUpdate \/ GlialReset
    \/ MetabolismUpdate \/ MetabolismReset

SpecSubsystems == InitSubsystems /\ [][NextSubsystems]_vars

\* the three concentration maps of the field with the baseline each relaxes to
FieldMaps(nts) ==
    { <<nts.dopamine_map, nts.dopamine_baseline>>,
      <<nts.serotonin_map, nts.serotonin_baseline>>,
      <<nts.acetylcholine_map, nts.acetylcholine_baseline>> }

\* C5: with no release, every diffuse(dt) call with dt > 0 moves every cell of each
\* transmitter grid toward that transmitter's own baseline (dopamine 0.3, serotonin 0.3,
\* acetylcholine 0.2): no cell's distance to its baseline increases.
C5_DiffuseRelaxesTowardOwnBaseline ==
    [][ (last'.op = "diffuse" /\ calls' = calls + 1 /\ last'.dt > 0) =>
           /\ \A c \in Cells(neurotransmitter_system.grid_size) :
                 /\ Abs(neurotransmitter_system'.dopamine_map[c]
                        - neurotransmitter_system.dopamine_baseline)
                    <= Abs(neurotransmitter_system.dopamine_map[c]
                           - neurotransmitter_system.dopamine_baseline)
                 /\ Abs(neurotransmitter_system'.serotonin_map[c]
                        - neurotransmitter_system.serotonin_baseline)
                    <= Abs(neurotransmitter_system.serotonin_map[c]
                           - neurotransmitter_system.serotonin_baseline)
                 /\ Abs(neurotransmitter_system'.acetylcholine_map[c]
                        - neurotransmitter_system.acetylcholine_baseline)
                    <= Abs(neurotransmitter_system.acetylcholine_map[c]
                           - neurotransmitter_system.acetylcholine_baseline) ]_vars

\* C6: after any sequence of release calls (non-negative amounts, any position, any
\* transmitter type) and diffuse calls (dt >= 0), every cell of the dopamine, serotonin
\* and acetylcholine grids is in [0, 1].
C6_ConcentrationsInUnitInterval ==
    \A pair \in FieldMaps(neurotransmitter_system) :
        \A c \in Cells(neurotransmitter_system.grid_size) :
            0 <= pair[1][c] /\ pair[1][c] <= Scale

\* a release of 2.0 was capped at 1 in a field of more than one cell, after a diffusion
\* step had spread an earlier release
C6_Witness ==
    /\ under_test = "field"
    /\ last.op = "release" /\ last.amount > Scale /\ last.type = "dopamine"
    /\ neurotransmitter_system.grid_size > 1
    /\ \E c \in Cells(neurotransmitter_system.grid_size) :
          neurotransmitter_system.dopamine_map[c] = Scale
    /\ \E c \in Cells(neurotransmitter_system.grid_size) :
          /\ neurotransmitter_system.dopamine_map[c] > 0
          /\ neurotransmitter_system.dopamine_map[c] < Scale

\* C9: reset() on NeurotransmitterDiffusion, GlialNetwork and SystemicMetabolism, after any
\* sequence of updates, leaves every field equal to that of a freshly constructed instance
\* with the same parameters.
C9_ResetRestoresFreshSubsystem ==
    last.op = "reset" =>
        /\ neurotransmitter_system = NeurotransmitterDiffusion(neurotransmitter_system.space_size)
        /\ glial_network = GlialNetwork(glial_network.num_astrocytes, glial_network.brain_size)
        /\ metabolism = SystemicMetabolism

\* C13: in every reachable state of an Astrocyte, from construction through any sequence of
\* respond_to_neural_activity calls and GlialNetwork.reset, calcium_level >= calcium_resting
\* (the resting floor 0.1).
C13_CalciumAtLeastResting ==
    \A k \in 1..Len(glial_network.astrocytes) :
        glial_network.astrocytes[k].calcium_level >= glial_network.astrocytes[k].calcium_resting

BrainSpaces == {<<40, 40>>}

\* the dt the brain is constructed with: the default 0.01, and 1.0
BrainDts == {Frac(1, 100, Scale), Scale}

\* visual scenes, lists of (x, y, brightness): empty, and one object on a receptive field
Scenes == { << >>, << <<10 * Scale, 10 * Scale, Scale>> >> }

\* motion-vector lists: empty, and one vector of magnitude 1 at angle 0
MotionVectorLists == { << >>, << <<Scale, 0>> >> }

Rewards == {0, Scale}

InitBrain ==
    /\ IdleNeuron
    /\ under_test = "brain"
    /\ juvenile_mode \in BOOLEAN
    /\ \E space_size \in BrainSpaces, dt \in BrainDts :
          /\ brain = BioFrogBrain(space_size, juvenile_mode, dt)
          /\ neurotransmitter_system = NeurotransmitterDiffusion(space_size)
    /\ glial_network = GlialNetwork(24, <<400 * Scale, 400 * Scale>>)
    /\ metabolism = SystemicMetabolism
    /\ structural = StructuralPlasticityManager
    /\ synapses = << >>
    /\ raised = "none"
    /\ last = NoCall
    /\ IdleAgent
    /\ IdleEnergy
    /\ IdleTectum
    /\ IdleConstruction
    /\ calls = 0

\* BioFrogBrain.update(visual_scene, motion_vectors, reward, dt): the age and the
\* end-of-childhood check, then stages 1 to 7 and the histories; an exception raised in
\* stage 6 leaves the work of stages 1 to 5 done and skips the rest.  The structural
\* plasticity of stage 6 runs on self.dt, the other stages on the dt of the call.  The
\* result of each stage is bound once (\E v \in {e}) and handed to the stages after it.
BrainUpdateCall(visual_scene, motion_vectors, reward, dt) ==
    \E aged \in {JuvenileCheck([brain EXCEPT !.steps = @ + 1, !.juvenile_age = @ + 1])} :
    \E visual \in {process_visual_input(brain.visual_system, visual_scene)} :
    \E tectal \in {Tectum_process(brain.tectum, visual.retinal_output, motion_vectors)} :
    \E movement_command \in {get_movement_command(tectal)} :
    \E motor \in {execute_movement_command(brain.motor_hierarchy, movement_command,
                                           <<0, 0, 0>>)} :
       LET retinal_output == visual.retinal_output
           velocity == movement_command
           neural_activity ==
               IF Len(retinal_output) > 0
               THEN Mean([k \in 1..Len(retinal_output) |-> Abs(retinal_output[k])])
               ELSE 0
           dopamine == DopamineLevel(aged, reward)
           serotonin == SerotoninLevel(aged, metabolism.glucose_level)
           movement_intensity == Norm(velocity) \div 2
           throws == PlasticityRaises(synapses)
           staged == [aged EXCEPT !.visual_system = visual,
                                  !.tectum = tectal,
                                  !.motor_hierarchy = motor,
                                  !.dopamine_level = dopamine,
                                  !.serotonin_level = serotonin]
       IN /\ neurotransmitter_system' = NeuromodulatorField(neurotransmitter_system, reward, dt)
          /\ metabolism' = SystemicMetabolism_update(metabolism, dt, movement_intensity,
                                                     neural_activity)
          /\ IF Len(synapses) > 0 /\ ~throws
             THEN \E draws \in [1..Len(synapses) -> RandomDraws] :
                     /\ synapses' = update_structure(structural, synapses, brain.dt, draws)[1]
                     /\ structural' = update_structure(structural, synapses, brain.dt, draws)[2]
             ELSE UNCHANGED <<synapses, structural>>
          /\ glial_network' = IF throws THEN glial_network
                              ELSE GlialNetwork_update(glial_network, << >>, << >>, dt)
          /\ brain' = IF throws THEN staged
                      ELSE [staged EXCEPT
                              !.activity_history = AppendHistory(@, neural_activity),
                              !.dopamine_history = AppendHistory(@, dopamine),
                              !.reward_history = IF reward > 0 THEN AppendHistory(@, reward)
                                                 ELSE @]
          /\ raised' = IF throws THEN "AttributeError" ELSE "none"

\* brain.update(visual_scene, motion_vectors, reward) with dt left at None, which makes it
\* self.dt.  The driver stops calling once the age is past the juvenile duration.
BrainUpdate ==
    /\ brain.juvenile_age <= brain.juvenile_duration
    /\ \E visual_scene \in Scenes, motion_vectors \in MotionVectorLists, reward \in Rewards :
          /\ BrainUpdateCall(visual_scene, motion_vectors, reward, brain.dt)
          /\ last' = [op |-> "update", reward |-> reward,
                      juvenile_before |-> brain.is_juvenile,
                      stages |-> StagesCompleted(synapses)]
    /\ calls' = calls + 1
    /\ UNCHANGED <<neuronVars, under_test, juvenile_mode, agentVars, energyVars, tectumVars, constructionVars>>

\* brain.synapses.append(BiologicalSynapse(initial_weight=0.5)) by a user of the brain
BrainAppendSynapse ==
    /\ synapses = << >>
    /\ synapses' = Append(synapses, BiologicalSynapse(Scale, Some(Frac(5, 10, Scale)), 0, 0))
    /\ last' = [op |-> "append_synapse"]
    /\ calls' = calls + 1
    /\ UNCHANGED <<neuronVars, structural, subsystemVars, brainVars, agentVars, energyVars, tectumVars, constructionVars>>

NextBrain == BrainUpdate \/ BrainAppendSynapse

SpecBrain == InitBrain /\ [][NextBrain]_vars

\* C3: for a brain built with juvenile_mode = true and juvenile_duration = D, across any
\* sequence of update calls with any rewards, is_juvenile is true in every state where
\* juvenile_age is in 0..D-1 and false in every state where juvenile_age >= D; once
\* is_juvenile is false it never becomes true again.
C3_JuvenileExactlyBelowDuration ==
    /\ [](juvenile_mode =>
            (brain.is_juvenile <=> brain.juvenile_age < brain.juvenile_duration))
    /\ [][~brain.is_juvenile => ~brain'.is_juvenile]_vars

\* a brain built juvenile is adult, past its duration, after rewarded and unrewarded updates
C3_Witness ==
    /\ juvenile_mode /\ ~brain.is_juvenile
    /\ brain.juvenile_age > brain.juvenile_duration
    /\ brain.reward_history # << >>
    /\ Len(brain.reward_history) < Len(brain.dopamine_history)

\* C4: BioFrogBrain.update never raises for any visual scene, any motion-vector list
\* (including the empty one) and any reward, in particular also when the brain's synapse
\* list is non-empty so that the plasticity managers are actually run.
C4_UpdateNeverRaises == raised = "none"

\* C10 as stated: in a brain built with juvenile_mode = true, after every update call made
\* while the brain is still juvenile with reward = 0, dopamine_level is in [0.85, 1.0].
C10_JuvenileCallKeepsDopamineHigh ==
    (juvenile_mode /\ last.op = "update" /\ last.juvenile_before /\ last.reward = 0) =>
        /\ Frac(85, 100, Scale) <= brain.dopamine_level
        /\ brain.dopamine_level <= Scale

\* C10 as amended: in a brain built with juvenile_mode = true, after every update call with
\* reward = 0 at whose end the brain is still juvenile, dopamine_level is in [0.85, 1.0].
C10_StillJuvenileKeepsDopamineHigh ==
    (juvenile_mode /\ last.op = "update" /\ brain.is_juvenile /\ last.reward = 0) =>
        /\ Frac(85, 100, Scale) <= brain.dopamine_level
        /\ brain.dopamine_level <= Scale

\* a complete unrewarded update of a juvenile brain left dopamine at the juvenile baseline
C10_Witness ==
    /\ juvenile_mode /\ last.op = "update" /\ brain.is_juvenile /\ last.reward = 0
    /\ raised = "none"
    /\ brain.dopamine_level = Frac(85, 100, Scale)
    /\ brain.dopamine_history = <<Frac(85, 100, Scale)>>


C20_StagesRunInFixedOrder ==
    last.op = "update" =>
        last.stages =
            <<"developmental_check", "sensory", "direction_relay", "motor", "neuromodulation",
              "field_diffusion", "metabolism">>
            \o (IF Len(synapses) > 0 THEN <<"plasticity">> ELSE << >>)
            \o <<"glial">>

(***************************************************************************)
(* SpecSimulation: a driver that builds a BioFlyCatchingSimulation from a  *)
(* configuration and resets it                                             *)
(***************************************************************************)
SimulationWidths == {400, 800}

SimulationHeights == {300, 600}

FlyCounts == {0, 1, 2}

\* positions random.uniform(100, width - 100), random.uniform(100, height - 100) can give:
\* the corner of the spawn area, and a point 50 to the right of the arena's centre
SpawnPositions(width, height) ==
    { <<100 * Scale, 100 * Scale>>,
      <<(width \div 2 + 50) * Scale, (height \div 2) * Scale>> }

\* the state after BioFlyCatchingSimulation(width, height, skip_training, bio_mode,
\* juvenile_mode, num_flies, headless = True)
InitSimulation ==
    /\ IdleNeuron
    /\ IdleSynapses
    /\ IdleSubsystems
    /\ \E width \in SimulationWidths, height \in SimulationHeights, num_flies \in FlyCounts,
          skip_training \in BOOLEAN, bio_mode \in BOOLEAN, mode \in BOOLEAN :
       \E positions \in [1..num_flies -> SpawnPositions(width, height)] :
          /\ simulation = BioFlyCatchingSimulation(width, height, bio_mode, mode, num_flies,
                                                   positions)
          /\ frog = Simulation_frog(width, height, skip_training, bio_mode)
          /\ brain = AgentBrain(mode)
          /\ juvenile_mode = mode
          /\ last = [op |-> "BioFlyCatchingSimulation", skip_training |-> skip_training]
    /\ raised = "none"
    /\ IdleEnergy
    /\ IdleTectum
    /\ IdleConstruction
    /\ calls = 0

SimulationReset ==
    /\ calls < MaxCalls
    /\ \E positions \in [1..simulation.num_flies
                           -> SpawnPositions(simulation.width, simulation.height)] :
          simulation' = reset_simulation(simulation, positions)
    /\ frog' = reset_simulation_frog(simulation)
    /\ brain' = AgentBrain(simulation.juvenile_mode)
    /\ last' = [op |-> "reset_simulation", skip_training |-> last.skip_training]
    /\ calls' = calls + 1
    /\ UNCHANGED <<neuronVars, synapseVars, subsystemVars, juvenile_mode, raised, energyVars, tectumVars, constructionVars>>

NextSimulation == SimulationReset

SpecSimulation == InitSimulation /\ [][NextSimulation]_vars

\* C16: the hunting regime chosen at construction determines the strike parameters: the
\* agent of a simulation built with skip_training = false (training regime) has a strictly
\* smaller hit radius and a strictly smaller success probability than the agent the same
\* simulation gets with skip_training = true (instinct regime).
C16_TrainingStricterThanInstinct ==
    (last.op = "BioFlyCatchingSimulation" /\ ~last.skip_training) =>
        LET instinct == Simulation_frog(simulation.width, simulation.height, TRUE,
                                        simulation.bio_mode)
        IN /\ frog.training_mode /\ instinct.instinct_mode
           /\ frog.hit_radius < instinct.hit_radius
           /\ frog.success_prob < instinct.success_prob


(***************************************************************************)
(* SpecEnergy: a driver calling consume_energy, recover_energy and         *)
(* affects_excitability on one NeuronMetabolism                            *)
(***************************************************************************)
\* baseline_atp: 0.5 and the default 1.0
BaselineAtps == {Frac(5, 10, Scale), Scale}

\* max_atp: 1.0 and the default 2.0
MaxAtps == {Scale, 2 * Scale}

\* firing rates in Hz: 0 and 50
FiringRates == {0, 50 * Scale}

\* dt: 0, 1 and 100
EnergyDts == {0, Scale, 100 * Scale}

\* oxygen and glucose levels: 0, 1.0, 1.5
ResourceLevels == {0, Scale, Frac(15, 10, Scale)}

InitEnergy ==
    /\ IdleBrain
    /\ IdleNeuron
    /\ IdleSynapses
    /\ IdleSubsystems
    /\ IdleAgent
    /\ \E baseline_atp \in BaselineAtps, max_atp \in MaxAtps :
          neuron_metabolism = NeuronMetabolism(baseline_atp, max_atp)
    /\ last = NoCall
    /\ IdleTectum
    /\ IdleConstruction
    /\ calls = 0

EnergyConsume ==
    /\ calls < MaxCalls
    /\ \E spiked \in BOOLEAN, firing_rate \in FiringRates, dt \in EnergyDts :
          /\ neuron_metabolism' = consume_energy(neuron_metabolism, spiked, firing_rate, dt)
          /\ last' = [op |-> "consume_energy", before |-> neuron_metabolism.atp_level]
    /\ calls' = calls + 1
    /\ UNCHANGED <<neuronVars, synapseVars, subsystemVars, brainVars, agentVars, tectumVars, constructionVars>>

EnergyRecover ==
    /\ calls < MaxCalls
    /\ \E dt \in EnergyDts, oxygen_level \in ResourceLevels, glucose_level \in ResourceLevels :
          /\ neuron_metabolism' = recover_energy(neuron_metabolism, dt, oxygen_level,
                                                 glucose_level)
          /\ last' = [op |-> "recover_energy", before |-> neuron_metabolism.atp_level]
    /\ calls' = calls + 1
    /\ UNCHANGED <<neuronVars, synapseVars, subsystemVars, brainVars, agentVars, tectumVars, constructionVars>>

EnergyExcitability ==
    /\ calls < MaxCalls
    /\ neuron_metabolism' = affects_excitability(neuron_metabolism)
    /\ last' = [op |-> "affects_excitability", before |-> neuron_metabolism.atp_level]
    /\ calls' = calls + 1
    /\ UNCHANGED <<neuronVars, synapseVars, subsystemVars, brainVars, agentVars, tectumVars, constructionVars>>

NextEnergy == EnergyConsume \/ EnergyRecover \/ EnergyExcitability

SpecEnergy == InitEnergy /\ [][NextEnergy]_vars

\* C17: after any sequence of consume_energy and recover_energy calls atp_level is in
\* [0, max_atp], and every value affects_excitability returns is in [0.1, 2.0].
C17_AtpAndExcitabilityBounded ==
    /\ last.op \in {"consume_energy", "recover_energy"} =>
           /\ 0 <= neuron_metabolism.atp_level
           /\ neuron_metabolism.atp_level <= neuron_metabolism.max_atp
    /\ last.op = "affects_excitability" =>
           /\ Frac(1, 10, Scale) <= neuron_metabolism.excitability_modifier
           /\ neuron_metabolism.excitability_modifier <= 2 * Scale

\* a recovery that was cut off at max_atp
C17_Witness ==
    /\ last.op = "recover_energy"
    /\ last.before < neuron_metabolism.max_atp
    /\ neuron_metabolism.atp_level = neuron_metabolism.max_atp
    /\ neuron_metabolism.excitability_modifier = 2 * Scale


(***************************************************************************)
(* SpecTectum: a driver calling process and reset on one Tectum            *)
(***************************************************************************)
\* retinal outputs: empty, silent, a mean drive of 1.0 and a mean drive of 7000.0 (enough
\* to make a pyramidal neuron spike in one step)
RetinalInputs == { << >>, <<0, 0>>, <<Scale, Scale>>, <<14000 * Scale, 0>> }

\* motion-vector lists: empty, one vector of magnitude 1 along each axis direction, one
\* diagonal vector, and two vectors
TectumMotions ==
    { << >>,
      << <<Scale, 0>> >>, << <<0, Scale>> >>, << <<-Scale, 0>> >>, << <<0, -Scale>> >>,
      << <<Scale, Scale>> >>,
      << <<Scale, 0>>, <<0, Scale>> >> }

InitTectum ==
    /\ IdleBrain
    /\ IdleNeuron
    /\ IdleSynapses
    /\ IdleSubsystems
    /\ IdleAgent
    /\ IdleEnergy
    /\ tectum = Tectum(TectumColumns)
    /\ last = NoCall
    /\ IdleConstruction
    /\ calls = 0

TectumProcess ==
    /\ calls < MaxTectumCalls
    /\ \E retinal_input \in RetinalInputs, motion_vectors \in TectumMotions :
          /\ tectum' = Tectum_process(tectum, retinal_input, motion_vectors)
          /\ last' = [op |-> "process", retinal_input |-> retinal_input,
                      motion_vectors |-> motion_vectors]
    /\ calls' = calls + 1
    /\ UNCHANGED <<neuronVars, synapseVars, subsystemVars, brainVars, agentVars, energyVars, constructionVars>>

TectumReset ==
    /\ calls < MaxTectumCalls
    /\ tectum' = Tectum_reset(tectum)
    /\ last' = [op |-> "reset"]
    /\ calls' = calls + 1
    /\ UNCHANGED <<neuronVars, synapseVars, subsystemVars, brainVars, agentVars, energyVars, constructionVars>>

NextTectum == TectumProcess \/ TectumReset

SpecTectum == InitTectum /\ [][NextTectum]_vars

\* the distance between two angles on the circle
CircularDistance(a, b) ==
    LET d == Abs(((a + TwoPi) % TwoPi) - ((b + TwoPi) % TwoPi)) IN Min(d, TwoPi - d)

\* C11: given a non-zero retinal drive and a single motion vector at angle theta, after
\* Tectum.process the column whose preferred direction is closest to theta has the highest
\* output of all columns and is the one decoded as dominant, and get_movement_command
\* returns a vector whose angle is within half the spacing between adjacent preferred
\* directions of theta.
C11_TectumDecodesHeading ==
    (/\ last.op = "process"
     /\ Len(last.retinal_input) > 0 /\ Mean(last.retinal_input) > 0
     /\ Len(last.motion_vectors) = 1) =>
        LET theta == Atan2(last.motion_vectors[1][2], last.motion_vectors[1][1])
            preferred(k) == tectum.columns[k].preferred_direction
            closest == CHOOSE k \in 1..tectum.num_columns :
                          \A m \in 1..tectum.num_columns :
                              CircularDistance(preferred(k), theta)
                                  <= CircularDistance(preferred(m), theta)
            command == get_movement_command(tectum)
        IN /\ \A m \in 1..tectum.num_columns :
                  tectum.tectal_output[m] <= tectum.tectal_output[closest]
           /\ tectum.dominant_direction = preferred(closest)
           /\ command # <<0, 0>>
           /\ CircularDistance(Atan2(command[2], command[1]), theta)
                  <= Pi \div tectum.num_columns


(***************************************************************************)
(* SpecConstruction: a driver calling the constructors of the brain and of *)
(* its subsystems with valid and invalid configurations                    *)
(***************************************************************************)
\* arena widths and heights: negative, zero, positive
ArenaSides == {-40, 0, 40}

\* astrocyte and column counts: negative, zero, perfect squares, and the brain's 24
Counts == {-1, 0, 1, 4, 24}

InitConstruction ==
    /\ IdleBrain
    /\ IdleNeuron
    /\ IdleSynapses
    /\ IdleSubsystems
    /\ IdleAgent
    /\ IdleEnergy
    /\ IdleTectum
    /\ constructed = [instance |-> None, raised |-> "none"]
    /\ last = NoCall
    /\ calls = 0

\* NeurotransmitterDiffusion(space_size=(width, height))
ConstructField ==
    /\ calls < MaxCalls
    /\ \E width \in ArenaSides, height \in ArenaSides :
          /\ constructed' = Outcome(NeurotransmitterDiffusion_raises(<<width, height>>),
                                    NeurotransmitterDiffusion(<<width, height>>))
          /\ last' = [op |-> "NeurotransmitterDiffusion", space_size |-> <<width, height>>,
                      count |-> 0]
    /\ calls' = calls + 1
    /\ UNCHANGED <<neuronVars, synapseVars, subsystemVars, brainVars, agentVars, energyVars,
                   tectumVars>>

\* BioFrogBrain(space_size=(width, height), juvenile_mode=mode)
ConstructBrain ==
    /\ calls < MaxCalls
    /\ \E width \in ArenaSides, height \in ArenaSides, mode \in BOOLEAN :
          /\ constructed' = Outcome(BioFrogBrain_raises(<<width, height>>),
                                    BioFrogBrain(<<width, height>>, mode, Frac(1, 100, Scale)))
          /\ last' = [op |-> "BioFrogBrain", space_size |-> <<width, height>>, count |-> 0]
    /\ calls' = calls + 1
    /\ UNCHANGED <<neuronVars, synapseVars, subsystemVars, brainVars, agentVars, energyVars,
                   tectumVars>>

\* GlialNetwork(num_astrocytes=count)
ConstructGlialNetwork ==
    /\ calls < MaxCalls
    /\ \E count \in Counts :
          /\ constructed' = Outcome(GlialNetwork_raises(count),
                                    GlialNetwork(count, <<400 * Scale, 400 * Scale>>))
          /\ last' = [op |-> "GlialNetwork", space_size |-> <<400, 400>>, count |-> count]
    /\ calls' = calls + 1
    /\ UNCHANGED <<neuronVars, synapseVars, subsystemVars, brainVars, agentVars, energyVars,
                   tectumVars>>

\* Tectum(columns=count)
ConstructTectum ==
    /\ calls < MaxCalls
    /\ \E count \in Counts :
          /\ constructed' = Outcome(Tectum_raises(count), Tectum(count))
          /\ last' = [op |-> "Tectum", space_size |-> <<400, 400>>, count |-> count]
    /\ calls' = calls + 1
    /\ UNCHANGED <<neuronVars, synapseVars, subsystemVars, brainVars, agentVars, energyVars,
                   tectumVars>>

NextConstruction == ConstructField \/ ConstructBrain \/ ConstructGlialNetwork \/ ConstructTectum

SpecConstruction == InitConstruction /\ [][NextConstruction]_vars

\* a configuration with a zero or negative arena side, or with a negative count
InvalidConfiguration ==
    /\ last.op # "none"
    /\ \/ last.space_size[1] <= 0
       \/ last.space_size[2] <= 0
       \/ last.count < 0

\* C15: constructing the brain or one of its subsystems with an invalid arena size (zero
\* or negative width or height) or a negative count (astrocytes, direction columns) fails
\* at construction time with an error, and no instance is produced.
C15_MisconfigurationFailsFast ==
    InvalidConfiguration =>
        /\ constructed.raised # "none"
        /\ constructed.instance = None

\* C30: a GlialNetwork constructed with num_astrocytes = n holds exactly n astrocytes,
\* for every n >= 0, including counts that are not perfect squares such as the brain's 24.
C30_NetworkHoldsRequestedAstrocytes ==
    (/\ last.op = "GlialNetwork"
     /\ last.count >= 0
     /\ constructed.instance # None) =>
        Len(constructed.instance[1].astrocytes) = last.count

\* C23: when no neuron lies within an astrocyte's influence radius, including when the
\* supplied position list is empty, respond_to_neural_activity treats the local activity
\* as 0: calcium decays exponentially toward the resting value, release and the substance
\* levels follow from that calcium, and the 0 sample is recorded.
C23_NoNeighboursMeansZeroActivity ==
    [][ (under_test = "glial" /\ last'.op = "update") =>
          \A k \in 1..Len(glial_network.astrocytes) :
              LET a == glial_network.astrocytes[k]
                  b == glial_network'.astrocytes[k]
                  dt == last'.dt
                  calcium == a.calcium_resting
                             + Mul(a.calcium_level - a.calcium_resting,
                                   Decay(dt, a.calcium_decay_tau))
                  released == Div(calcium - a.gliotransmitter_threshold,
                                  a.calcium_peak - a.gliotransmitter_threshold)
              IN NearbyActivity(a, last'.activity, last'.positions) = << >> =>
                    /\ b.calcium_level = calcium
                    /\ IF calcium > a.gliotransmitter_threshold
                       THEN /\ b.gliotransmitter_release = released
                            /\ b.glutamate_level = Frac(3, 10, released)
                            /\ b.atp_level = Frac(5, 10, released)
                       ELSE /\ b.gliotransmitter_release = 0
                            /\ b.glutamate_level
                                  = Mul(a.glutamate_level, Decay(dt, 100 * Scale))
                            /\ b.atp_level = Mul(a.atp_level, Decay(dt, 150 * Scale))
                    /\ b.neural_activity_history
                          = AppendHistory(a.neural_activity_history, 0) ]_vars

(***************************************************************************)
(* SpecRetina: a driver calling process_visual_input on the retina of a    *)
(* brain with scenes of zero, one and two objects                          *)
(***************************************************************************)
\* scene objects (x, y, brightness): on the first receptive field, and on the last, dimmer
NearObject == <<10 * Scale, 10 * Scale, Scale>>

FarObject == <<30 * Scale, 30 * Scale, Frac(5, 10, Scale)>>

RetinaScenes == { << >>, <<NearObject>>, <<FarObject>>, <<NearObject, FarObject>>,
                  <<NearObject, NearObject>> }

InitRetina ==
    /\ IdleBrain
    /\ IdleNeuron
    /\ IdleSynapses
    /\ IdleSubsystems
    /\ IdleAgent
    /\ IdleEnergy
    /\ IdleTectum
    /\ IdleConstruction
    /\ last = NoCall
    /\ calls = 0

\* brain.visual_system.process_visual_input(visual_scene)
RetinaProcess ==
    /\ calls < MaxCalls
    /\ \E visual_scene \in RetinaScenes :
          /\ brain' = [brain EXCEPT !.visual_system = process_visual_input(@, visual_scene)]
          /\ last' = [op |-> "process_visual_input", visual_scene |-> visual_scene]
    /\ calls' = calls + 1
    /\ UNCHANGED <<neuronVars, synapseVars, subsystemVars, juvenile_mode, raised, agentVars,
                   energyVars, tectumVars, constructionVars>>

NextRetina == RetinaProcess

SpecRetina == InitRetina /\ [][NextRetina]_vars

\* C22: in one process_visual_input call each receptive field's neuron unit is integrated
\* exactly once, whatever the number of objects in the scene: the unit, which stays below
\* its firing threshold here and so records every integration step in its potential
\* history, has one more sample after the call than before it.
C22_OneIntegrationPerFieldPerCall ==
    [][ last'.op = "process_visual_input" =>
          \A k \in 1..Len(brain.visual_system.filters) :
              Len(brain'.visual_system.filters[k].center_neuron.membrane_potential_history)
                  = Len(brain.visual_system.filters[k].center_neuron.membrane_potential_history)
                    + 1 ]_vars

\* the retina's units never fire in this driver, so none of them skips a sample while
\* refractory
RetinaUnitsStaySilent ==
    \A k \in 1..Len(brain.visual_system.filters) :
        /\ brain.visual_system.filters[k].center_neuron.refractory_counter = 0
        /\ brain.visual_system.filters[k].output = 0

(***************************************************************************)
(* SpecHunt: a simulation of an 800 x 600 arena with one or two flies,     *)
(* stepped MaxSteps times                                                  *)
(***************************************************************************)
HuntFlyCounts == {1, 2}

\* the values random.random() returns in the catch check: below and above success_prob
CatchDraws == {0, Scale - 1}

\* the state after BioFlyCatchingSimulation(800, 600, num_flies = n, headless = True).  The
\* agent's brain is BioFrogBrain((800, 600), juvenile_mode, 0.01) with its empty synapse
\* list; its neuromodulator field is kept on the 2 x 2 grid of BrainSpaces instead of the
\* 34 x 34 grid of that arena.
InitHunt ==
    /\ IdleNeuron
    /\ under_test = "hunt"
    /\ juvenile_mode \in BOOLEAN
    /\ \E num_flies \in HuntFlyCounts :
       \E positions \in [1..num_flies -> SpawnPositions(800, 600)] :
          simulation = BioFlyCatchingSimulation(800, 600, TRUE, juvenile_mode, num_flies,
                                                positions)
    /\ frog = Simulation_frog(800, 600, FALSE, TRUE)
    /\ brain = AgentBrain(juvenile_mode)
    /\ \E space_size \in BrainSpaces :
          neurotransmitter_system = NeurotransmitterDiffusion(space_size)
    /\ glial_network = GlialNetwork(24, <<400 * Scale, 400 * Scale>>)
    /\ metabolism = SystemicMetabolism
    /\ structural = StructuralPlasticityManager
    /\ synapses = << >>
    /\ raised = "none"
    /\ last = NoCall
    /\ IdleEnergy
    /\ IdleTectum
    /\ IdleConstruction
    /\ calls = 0

\* BioFlyCatchingSimulation.step(): the flies' update only turns their velocities, and
\* the one space.step(dt) of the physics leaves the bodies of this hunt where they are
\* (the brain's velocity command is zero, and the flies hover); in between the agent is
\* updated, which calls brain.update with the scene it sees, and afterwards come the
\* telemetry, the catch of a fly that is still alive, the step count and, every 50th
\* step, the respawn.
SimulationStep ==
    /\ simulation.step_count < MaxSteps
    /\ BrainUpdateCall(detect_flies_scene(frog, simulation.flies),
                       detect_flies_vectors(frog, simulation.flies),
                       AgentReward(frog), simulation.dt)
    /\ \E draws \in [1..Len(simulation.flies) -> CatchDraws] :
       \E agent \in {BioFrogAgent_update(frog, simulation.dt, simulation.flies,
                                         frog.position, draws)} :
          LET caught_fly == agent.attached_fly
              counted == caught_fly # None /\ simulation.flies[caught_fly[1]].alive
              flies == IF counted
                       THEN [simulation.flies EXCEPT ![caught_fly[1]].alive = FALSE]
                       ELSE simulation.flies
              step_count == simulation.step_count + 1
              stepped ==
                  [simulation EXCEPT
                     !.energy_history = AppendHistory(@, agent.energy),
                     !.dopamine_history = AppendHistory(@, brain'.dopamine_level),
                     !.juvenile_history =
                         AppendHistory(@, IF brain'.is_juvenile THEN Scale ELSE 0),
                     !.flies = flies,
                     !.caught_count = IF counted THEN @ + 1 ELSE @,
                     !.catch_history = AppendHistory(@, IF counted THEN 1 ELSE 0),
                     !.step_count = step_count]
          IN /\ frog' = agent
             /\ IF step_count % 50 = 0
                THEN \E positions \in [1..simulation.num_flies
                                          -> SpawnPositions(simulation.width,
                                                            simulation.height)] :
                        simulation' = [stepped EXCEPT
                                         !.flies = respawn_dead_flies(stepped, flies,
                                                                      positions)]
                ELSE simulation' = stepped
             /\ last' = [op |-> "step",
                         reward |-> AgentReward(frog),
                         attached_before |-> frog.attached_fly,
                         caught_before |-> frog.caught_flies]
    /\ calls' = calls
    /\ UNCHANGED <<neuronVars, under_test, juvenile_mode, energyVars, tectumVars,
                   constructionVars>>

NextHunt == SimulationStep

SpecHunt == InitHunt /\ [][NextHunt]_vars

\* C25: between any two successful catches of a BioFrogAgent more than catch_cooldown (30)
\* update steps elapse, no catch occurs during the first catch_cooldown steps of the
\* agent's life, and caught_flies increases by at most 1 per update.
C25_CatchesKeepTheCooldown ==
    [][ last'.op = "step" =>
          /\ frog'.caught_flies - frog.caught_flies \in {0, 1}
          /\ frog'.caught_flies > frog.caught_flies =>
                /\ frog'.steps > frog.catch_cooldown
                /\ frog'.steps - frog.last_catch_time > frog.catch_cooldown
                /\ frog'.last_catch_time = frog'.steps ]_vars

\* a second catch, made 31 steps after a first catch made in step 31
C25_Witness ==
    /\ last.op = "step"
    /\ frog.caught_flies = 2 /\ last.caught_before = 1
    /\ frog.steps = 62 /\ frog.last_catch_time = 62

\* C26: every successful catch delivers reward 1.0 to the brain on exactly the next agent
\* update and on no other: the reward passed to BioFrogBrain.update in a step is 1.0 if a
\* fly was attached in the step before and 0 otherwise, a fly is attached in a step
\* exactly when it is caught in it, and the attachment is cleared when the reward is
\* delivered.
C26_RewardOnTheStepAfterTheCatch ==
    [][ last'.op = "step" =>
          LET attached == frog.attached_fly # None
          IN /\ last'.reward = IF attached THEN Scale ELSE 0
             /\ brain'.reward_history = IF attached THEN Append(brain.reward_history, Scale)
                                        ELSE brain.reward_history
             /\ attached => frog'.attached_fly = None
             /\ frog'.attached_fly # None <=> frog'.caught_flies > frog.caught_flies ]_vars

\* the step after a catch: the brain has its one reward and no fly is attached any more
C26_Witness ==
    /\ last.op = "step"
    /\ last.attached_before # None /\ last.reward = Scale
    /\ frog.caught_flies = 1 /\ frog.steps = frog.last_catch_time + 1
    /\ frog.attached_fly = None
    /\ brain.reward_history = <<Scale>>

\* C27: whenever the agent extends its tongue, tongue_target is the position of the
\* nearest fly among those detected within visual range in that step, for every fly
\* list, including lists in which some flies are out of range.
C27_TongueAimsAtNearestDetectedFly ==
    [][ (last'.op = "step" /\ ~frog.tongue_extended
         /\ DetectedFlies(frog, simulation.flies) # << >>) =>
          LET seen == DetectedFlies(frog, simulation.flies)
          IN \E j \in 1..Len(seen) :
                /\ frog'.tongue_target = Some(simulation.flies[seen[j]].position)
                /\ \A m \in 1..Len(seen) :
                      Distance(simulation.flies[seen[j]].position, frog.position)
                          <= Distance(simulation.flies[seen[m]].position, frog.position)
      ]_vars

\* C28: after any number of step calls the simulation's caught_count equals the agent's
\* caught_flies, the count get_statistics reports.
C28_CaughtCountsAgree ==
    simulation.caught_count = get_statistics(simulation, frog, brain).caught_flies

\* the hunt never moves the agent: the brain's movement command stays zero
HuntAgentStaysPut == get_movement_command(brain.tectum) = <<0, 0>>

====
